---------------------------- MODULE Spec2Model ----------------------------
(***************************************************************************)
(* A model of DistanceCalculator (src/src/services/map.py): the resolution *)
(* of grocery stores through the places API, the travel-time queries       *)
(* against the routes API and the assembly of the distance report.         *)
(*                                                                         *)
(* Python strings that the code inspects (addresses, display names, brand  *)
(* names, serialized durations) are sequences of one-character strings, so *)
(* that split, strip, lower and the substring test are computed.  Texts    *)
(* that the code only builds (duration and distance texts) are strings.    *)
(***************************************************************************)
EXTENDS Integers, Sequences, FiniteSets, TLC

(***************************************************************************)
(* Python values                                                           *)
(***************************************************************************)

\* Python's None (also a JSON null in an API payload).
None == [py_none |-> TRUE]

\* An empty dict.
EmptyDict == [k \in {} |-> {}]

\* Whether a JSON value is an object (something with .get), not null.
IsDict(v) == "py_none" \notin DOMAIN v

\* dict.get(key, default)
dict_get(d, key, default) == IF key \in DOMAIN d THEN d[key] ELSE default

(***************************************************************************)
(* str methods, on sequences of characters                                 *)
(***************************************************************************)

UPPERCASE ==
  <<"A","B","C","D","E","F","G","H","I","J","K","L","M",
    "N","O","P","Q","R","S","T","U","V","W","X","Y","Z">>

LOWERCASE ==
  <<"a","b","c","d","e","f","g","h","i","j","k","l","m",
    "n","o","p","q","r","s","t","u","v","w","x","y","z">>

IsSpace(c) == c \in {" ", "\t", "\n", "\r"}

lower_char(c) ==
  IF \E i \in DOMAIN UPPERCASE : UPPERCASE[i] = c
  THEN LOWERCASE[CHOOSE i \in DOMAIN UPPERCASE : UPPERCASE[i] = c]
  ELSE c

\* s.lower()
str_lower(s) == [i \in 1..Len(s) |-> lower_char(s[i])]

\* sub in s
str_contains(sub, s) ==
  \E k \in 0..(Len(s) - Len(sub)) : SubSeq(s, k + 1, k + Len(sub)) = sub

RECURSIVE str_lstrip(_)
str_lstrip(s) ==
  IF s # <<>> /\ IsSpace(Head(s)) THEN str_lstrip(Tail(s)) ELSE s

RECURSIVE str_rstrip(_)
str_rstrip(s) ==
  IF s # <<>> /\ IsSpace(s[Len(s)])
  THEN str_rstrip(SubSeq(s, 1, Len(s) - 1))
  ELSE s

\* s.strip()
str_strip(s) == str_rstrip(str_lstrip(s))

\* s.split(sep) for a one-character sep; cur is the part being read.
RECURSIVE str_split(_, _, _)
str_split(s, sep, cur) ==
  IF s = <<>> THEN <<cur>>
  ELSE IF Head(s) = sep THEN <<cur>> \o str_split(Tail(s), sep, <<>>)
  ELSE str_split(Tail(s), sep, Append(cur, Head(s)))

\* s.split(): the whitespace-delimited words, none of them empty.
RECURSIVE str_split_words(_, _)
str_split_words(s, cur) ==
  LET done == IF cur = <<>> THEN <<>> ELSE <<cur>>
  IN  IF s = <<>> THEN done
      ELSE IF IsSpace(Head(s)) THEN done \o str_split_words(Tail(s), <<>>)
      ELSE str_split_words(Tail(s), Append(cur, Head(s)))

\* s.rstrip('s')
RECURSIVE str_rstrip_s(_)
str_rstrip_s(s) ==
  IF s # <<>> /\ s[Len(s)] = "s"
  THEN str_rstrip_s(SubSeq(s, 1, Len(s) - 1))
  ELSE s

DIGITS == <<"0","1","2","3","4","5","6","7","8","9">>

IsDigit(c) == \E i \in DOMAIN DIGITS : DIGITS[i] = c

digit_value(c) == (CHOOSE i \in DOMAIN DIGITS : DIGITS[i] = c) - 1

\* Whether int(s) succeeds, for s without sign, space or underscore.
int_ok(s) == s # <<>> /\ \A i \in 1..Len(s) : IsDigit(s[i])

\* int(s) for a string of decimal digits.
RECURSIVE int_value(_)
int_value(s) ==
  IF s = <<>> THEN 0
  ELSE 10 * int_value(SubSeq(s, 1, Len(s) - 1)) + digit_value(s[Len(s)])

(***************************************************************************)
(* The static location list                                                *)
(***************************************************************************)

Woolworths == <<"W","o","o","l","w","o","r","t","h","s">>
Coles == <<"C","o","l","e","s">>
Aldi == <<"A","l","d","i">>
IGA == <<"I","G","A">>

WynardStation ==
  <<"W","y","n","a","r","d"," ","S","t","a","t","i","o","n"," ",
    "S","y","d","n","e","y",","," ","N","S","W">>

SydneyGrammar ==
  <<"S","y","d","n","e","y"," ","G","r","a","m","m","a","r"," ",
    "S","c","h","o","o","l",","," ","C","o","l","l","e","g","e"," ",
    "S","t","r","e","e","t",","," ","D","a","r","l","i","n","g","h","u","r","s","t">>

LOCATIONS ==
  [work |-> <<WynardStation>>,
   groceries |-> <<Woolworths, Coles, Aldi, IGA>>,
   schools |-> <<SydneyGrammar>>]

\* LOCATIONS.keys(), in the dict's order.
LOCATIONS_keys == <<"work", "groceries", "schools">>


(***************************************************************************)
(* _get_suburb_from_address                                                *)
(***************************************************************************)

\* What a call gives back: a value, or an exception that leaves the callee.
Returns(v) == [raised |-> FALSE, value |-> v]
Raises == [raised |-> TRUE]

\* _get_suburb_from_address without its exception handler: the IndexError
\* of parts[1].strip().split()[0] leaves the function.
_get_suburb_from_address_unguarded(address) ==
  LET parts == str_split(address, ",", <<>>)
  IN  IF Len(parts) >= 2
      THEN LET words == str_split_words(str_strip(parts[2]), <<>>)
           IN  IF words = <<>> THEN Raises ELSE Returns(words[1])
      ELSE Returns(<<>>)

\* _get_suburb_from_address reading the last comma-delimited part, parts[-1],
\* whatever the number of parts.
_get_suburb_from_address_last_part(address) ==
  LET parts == str_split(address, ",", <<>>)
      words == str_split_words(str_strip(parts[Len(parts)]), <<>>)
  IN  IF words = <<>> THEN Returns(<<>>) ELSE Returns(words[1])

\* parts[1].strip().split()[0] raises IndexError when nothing but whitespace
\* follows the first comma; the handler of lines 58-60 turns it into "".
_get_suburb_from_address(address) ==
  LET parts == str_split(address, ",", <<>>)
  IN  IF Len(parts) >= 2
      THEN LET words == str_split_words(str_strip(parts[2]), <<>>)
           IN  IF words = <<>> THEN Returns(<<>>) ELSE Returns(words[1])
      ELSE Returns(<<>>)

(***************************************************************************)
(* _get_grocery_locations                                                  *)
(***************************************************************************)

NSW == <<","," ","N","S","W">>

\* f"{store} {suburb}, NSW"
search_query(store, suburb) == store \o <<" ">> \o suburb \o NSW

\* The validation checks without the test for an address seen before.
passes_checks_without_seen(address, display_name, store, suburb, seen) ==
  /\ str_contains(str_lower(suburb), str_lower(address))
  /\ str_contains(str_lower(store), str_lower(display_name))

\* The validation checks without the test of the display name.
passes_checks_without_brand(address, display_name, store, suburb, seen) ==
  /\ address \notin seen
  /\ str_contains(str_lower(suburb), str_lower(address))

\* The validation checks of lines 116-126: the address is new, the suburb is
\* in the address and the store's name is in the display name (the last two
\* without regard to case).
passes_checks(address, display_name, store, suburb, seen) ==
  /\ address \notin seen
  /\ str_contains(str_lower(suburb), str_lower(address))
  /\ str_contains(str_lower(store), str_lower(display_name))

\* The loop over the places with the empty string, not the store's name, as
\* the display name of a place that has none.
RECURSIVE scan_places_unnamed_is_empty(_, _, _, _)
scan_places_unnamed_is_empty(places, store, suburb, seen) ==
  IF places = <<>> THEN [outcome |-> "none"]
  ELSE
    LET place == Head(places)
    IN  IF ~IsDict(place) THEN [outcome |-> "raised"]
        ELSE
          LET address == dict_get(place, "formattedAddress", <<>>)
              name_obj == dict_get(place, "displayName", EmptyDict)
          IN  IF ~IsDict(name_obj) THEN [outcome |-> "raised"]
              ELSE
                LET display_name == dict_get(name_obj, "text", <<>>)
                IN  IF ~passes_checks(address, display_name, store, suburb, seen)
                      THEN scan_places_unnamed_is_empty(Tail(places), store, suburb, seen)
                    ELSE [outcome |-> "found",
                          location |-> [name |-> store,
                                        display_name |-> display_name,
                                        formatted_address |-> address]]

\* The loop over data["places"] (lines 111-138): the first place that passes
\* the three checks, none, or an exception raised by a payload of the wrong
\* shape (a null place or a null displayName: None has no .get).
RECURSIVE scan_places(_, _, _, _)
scan_places(places, store, suburb, seen) ==
  IF places = <<>> THEN [outcome |-> "none"]
  ELSE
    LET place == Head(places)
    IN  IF ~IsDict(place) THEN [outcome |-> "raised"]
        ELSE
          LET address == dict_get(place, "formattedAddress", <<>>)
              name_obj == dict_get(place, "displayName", EmptyDict)
          IN  IF ~IsDict(name_obj) THEN [outcome |-> "raised"]
              ELSE
                LET display_name == dict_get(name_obj, "text", store)
                IN  IF ~passes_checks(address, display_name, store, suburb, seen)
                      THEN scan_places(Tail(places), store, suburb, seen)
                    ELSE [outcome |-> "found",
                          location |-> [name |-> store,
                                        display_name |-> display_name,
                                        formatted_address |-> address]]

\* One pass of the loop over LOCATIONS["groceries"] (lines 83-148) for the
\* places response to the store's search: the grocery_locations and
\* seen_addresses it leaves.  Every exception ends the store's pass (line 147).
search_store(store, suburb, response, found, seen) ==
  LET same == [grocery_locations |-> found, seen_addresses |-> seen]
  IN  IF response.raises THEN same
      ELSE IF response.status_code # 200 THEN same
      ELSE IF ~IsDict(response.data) THEN same
      ELSE IF "places" \in DOMAIN response.data /\ response.data.places # <<>>
      THEN LET scan == scan_places(response.data.places, store, suburb, seen)
           IN  IF scan.outcome = "found"
               THEN [grocery_locations |-> Append(found, scan.location),
                     seen_addresses |-> seen \cup {scan.location.formatted_address}]
               ELSE same
      ELSE same

(***************************************************************************)
(* _get_travel_time                                                        *)
(***************************************************************************)

SECONDS_PER_HOUR == 3600
SECONDS_PER_MINUTE == 60

\* round(meters / 1000, 1) in tenths of a kilometer.  A tie is rounded to the
\* even tenth when meters / 1000 is a binary fraction (x.25, x.75); the other
\* ties go the way of the nearest double and are kept out of RouteResponses.
round_km_tenths(meters) ==
  LET q == meters \div 100
      r == meters % 100
  IN  IF r < 50 THEN q
      ELSE IF r > 50 THEN q + 1
      ELSE IF q % 2 = 0 THEN q ELSE q + 1

\* f"{distance_km} km" for the float distance_km = tenths / 10
km_text(tenths) ==
  ToString(tenths \div 10) \o "." \o ToString(tenths % 10) \o " km"

\* The minutes are the duration's whole minutes, the hours' ones included.
_format_duration_total_minutes(seconds) ==
  LET hours == seconds \div SECONDS_PER_HOUR
      minutes == seconds \div SECONDS_PER_MINUTE
  IN  IF hours > 0
      THEN ToString(hours) \o " hr " \o ToString(minutes) \o " min"
      ELSE ToString(minutes) \o " min"

\* Lines 453-455: the text of a duration in seconds.
_format_duration(seconds) ==
  LET hours == seconds \div SECONDS_PER_HOUR
      minutes == (seconds % SECONDS_PER_HOUR) \div SECONDS_PER_MINUTE
  IN  IF hours > 0
      THEN ToString(hours) \o " hr " \o ToString(minutes) \o " min"
      ELSE ToString(minutes) \o " min"

\* Whatever the routes API answers, a duration is returned.
_get_travel_time_never_none(origin, destination, mode, departure_time, response) ==
  [text |-> "0 min", value |-> 0]

\* Lines 213-243 for the routes API's answer to the request: the dict
\* {"text", "value"} of the duration, or None.  The distance text is computed
\* (line 226-227) and is not part of what is returned.
_get_travel_time(origin, destination, mode, departure_time, response) ==
  IF response.raises THEN None
  ELSE IF response.status_code # 200 THEN None
  ELSE IF ~IsDict(response.data) THEN None
  ELSE IF "routes" \in DOMAIN response.data /\ response.data.routes # <<>>
  THEN LET route == response.data.routes[1]
       IN  IF \/ "duration" \notin DOMAIN route
              \/ "distanceMeters" \notin DOMAIN route
           THEN None
           ELSE IF ~int_ok(str_rstrip_s(route.duration)) THEN None
           ELSE
             LET duration_seconds == int_value(str_rstrip_s(route.duration))
                 distance_meters == route.distanceMeters
                 hours == duration_seconds \div SECONDS_PER_HOUR
                 minutes == (duration_seconds % SECONDS_PER_HOUR) \div SECONDS_PER_MINUTE
                 duration_text ==
                   IF hours > 0
                   THEN ToString(hours) \o " hr " \o ToString(minutes) \o " min"
                   ELSE ToString(minutes) \o " min"
                 distance_km == round_km_tenths(distance_meters)
                 distance_text == km_text(distance_km)
             IN  [text |-> duration_text, value |-> duration_seconds]
  ELSE None

(***************************************************************************)
(* Inputs: property addresses, category arguments, API responses           *)
(***************************************************************************)

\* "1 Smith St, Bondi NSW 2026"
AddressBondi ==
  <<"1"," ","S","m","i","t","h"," ","S","t",","," ",
    "B","o","n","d","i"," ","N","S","W"," ","2","0","2","6">>

\* "1 Smith St Bondi": no comma
AddressNoComma ==
  <<"1"," ","S","m","i","t","h"," ","S","t"," ","B","o","n","d","i">>

\* "1 Smith St, ": nothing but whitespace after the comma
AddressBlankSuburb == <<"1"," ","S","m","i","t","h"," ","S","t",","," ">>

PropertyAddresses == {AddressBondi, AddressNoComma, AddressBlankSuburb}

RECURSIVE SeqsUpTo(_, _)
SeqsUpTo(S, n) ==
  IF n = 0 THEN {<<>>}
  ELSE LET shorter == SeqsUpTo(S, n - 1)
       IN  shorter \cup {Append(q, x) : q \in {t \in shorter : Len(t) = n - 1}, x \in S}

\* The lists a caller passes as categories; "parks" is no key of LOCATIONS.
CategoryLists ==
  { <<>>, <<"work">>, <<"groceries">>, <<"schools">>, <<"parks">>,
    <<"schools", "work">>, <<"work", "work">> }

\* categories: Optional[List[str]]
CategoryArguments ==
  {[given |-> FALSE]} \cup {[given |-> TRUE, list |-> l] : l \in CategoryLists}

HallSt == <<"2"," ","H","a","l","l"," ","S","t",","," ","B","o","n","d","i">>
MallRd == <<"9"," ","M","a","l","l"," ","R","d",","," ","B","O","N","D","I">>
SeaSt == <<"7"," ","S","e","a"," ","S","t",","," ","B","o","n","d","i">>
BaySt == <<"5"," ","B","a","y"," ","S","t",","," ","M","a","n","l","y">>

WoolworthsBondi ==
  [formattedAddress |-> HallSt,
   displayName |-> [text |-> <<"W","o","o","l","w","o","r","t","h","s"," ","B","o","n","d","i">>]]

\* A Coles Express on the site of the Woolworths store.
ColesExpress ==
  [formattedAddress |-> HallSt,
   displayName |-> [text |-> <<"C","o","l","e","s"," ","E","x","p","r","e","s","s">>]]

ColesBondi ==
  [formattedAddress |-> MallRd,
   displayName |-> [text |-> <<"C","O","L","E","S"," ","B","o","n","d","i">>]]

ColesManly ==
  [formattedAddress |-> BaySt,
   displayName |-> [text |-> <<"C","o","l","e","s"," ","M","a","n","l","y">>]]

\* Places the places API may list, whatever the query: the stores above, a
\* place without displayName and one without formattedAddress.
Places ==
  { WoolworthsBondi, ColesExpress, ColesBondi, ColesManly,
    [formattedAddress |-> SeaSt],
    [displayName |-> [text |-> <<"A","l","d","i"," ","B","o","n","d","i">>]] }

\* The most places one response lists (the request asks for at most 3).
MaxPlaces == 2

HttpResponse(status, data) == [raises |-> FALSE, status_code |-> status, data |-> data]

\* requests.post raised.
RequestException == [raises |-> TRUE]

PlacesResponses ==
  {HttpResponse(200, [places |-> l]) : l \in SeqsUpTo(Places, MaxPlaces)}
    \cup { HttpResponse(200, EmptyDict), HttpResponse(200, None),
           HttpResponse(403, None), RequestException }

\* What the places API answers to a store's query when nothing is out of the
\* ordinary: Bondi has a Woolworths and a Coles, no Aldi and no IGA.
UsualPlaces(store) ==
  IF store = Woolworths THEN HttpResponse(200, [places |-> <<WoolworthsBondi>>])
  ELSE IF store = Coles THEN HttpResponse(200, [places |-> <<ColesBondi>>])
  ELSE HttpResponse(200, EmptyDict)

Route(duration, meters) ==
  HttpResponse(200, [routes |-> <<[duration |-> duration, distanceMeters |-> meters]>>])

\* What the routes API answers when nothing is out of the ordinary.
UsualRoute(mode) ==
  CASE mode = "DRIVE" -> Route(<<"1","8","0","0","s">>, 15340)
    [] mode = "TRANSIT" -> Route(<<"2","7","0","0","s">>, 16100)
    [] mode = "WALK" -> Route(<<"3","6","6","0","s">>, 1534)

\* The other answers of the routes API: a quick route, a duration that is no
\* integer, a route without distanceMeters, no route, no routes key, a body
\* that is no JSON object, an error status, no answer at all.
RouteResponses ==
  { Route(<<"6","0","0","s">>, 5250),
    Route(<<"1","2",".","5","s">>, 999),
    HttpResponse(200, [routes |-> <<[duration |-> <<"5","9","s">>]>>]),
    HttpResponse(200, [routes |-> <<>>]),
    HttpResponse(200, EmptyDict),
    HttpResponse(200, None),
    HttpResponse(500, None),
    RequestException }

RouteReplies(mode) == {UsualRoute(mode)} \cup RouteResponses

\* The body of a 200 answer carries a route with a duration in whole seconds
\* and a distance.
HasRouteData(data) ==
  /\ IsDict(data)
  /\ "routes" \in DOMAIN data
  /\ data.routes # <<>>
  /\ {"duration", "distanceMeters"} \subseteq DOMAIN data.routes[1]
  /\ LET duration == data.routes[1].duration
     IN  /\ Len(duration) > 1
         /\ duration[Len(duration)] = "s"
         /\ \A i \in 1..(Len(duration) - 1) : IsDigit(duration[i])

\* A failed query: a request exception, a non-200 status or missing route data.
RouteFailure(reply) ==
  \/ reply.raises
  \/ reply.status_code # 200
  \/ ~HasRouteData(reply.data)

\* What the log keeps of an answer: that the query failed, or the route.
Heard(reply) ==
  IF RouteFailure(reply) THEN [failed |-> TRUE]
  ELSE [failed |-> FALSE, route |-> reply.data.routes[1]]

\* The most requests of one call (routing queries and places searches) that
\* get another answer than the usual one.
MaxDeviations == 1

(***************************************************************************)
(* State                                                                   *)
(***************************************************************************)

VARIABLES
  pc,                \* where calculate_distances stands: the request it waits on
  property_address,  \* calculate_distances: argument
  categories_arg,    \* calculate_distances: the categories argument as passed
  categories,        \* calculate_distances: the list iterated (line 259-260)
  cat_pos,           \* position of the loop of line 270 in categories
  results,           \* calculate_distances: the report being built
  category_results,  \* calculate_distances: the current category's entries
  locations,         \* calculate_distances: line 276 / 281
  destinations,      \* calculate_distances: line 279 / 283
  idx,               \* position of the loop of line 285 (from 1)
  initial_route,     \* calculate_distances: line 289
  result,            \* calculate_distances: the current destination's entry
  suburb,            \* _get_grocery_locations: line 75
  store_pos,         \* position of the loop of line 83 in LOCATIONS["groceries"]
  grocery_locations, \* _get_grocery_locations: line 80
  seen_addresses,    \* _get_grocery_locations: line 81
  response,          \* _get_grocery_locations: the last places response (line 100)
  deviations,        \* routing queries of this call answered otherwise than usual
  places_requests,   \* history: the text queries of this call's places searches
  route_requests,    \* history: the routing queries issued for the current destination
  initial_meters,    \* history: distanceMeters of the initial route, by (category, destination)
  route_log,         \* history: this call's routing queries and the routes API's answers
  earlier_addresses, \* history: the grocery addresses reported by the instance's earlier calls
  duration_seconds,  \* a duration to render
  duration_text,     \* _get_travel_time: the text it renders for the duration
  formatted,         \* _format_duration: the text it returns for the duration
  analysis_sessions, \* routes.py: the sessions, by session id
  http_request,      \* the request handled last
  http_response,     \* the response to it
  service_calls,     \* history: the calls of the scraper and the calculator for it
  issued,            \* history: the session ids returned so far
  handled,           \* the number of requests handled
  _scraper,          \* ServiceManager._scraper: None, or the scraper with its driver
  _negative_nancy,   \* ServiceManager._negative_nancy: None, or the agent
  sessions_log,      \* history: each initialize request's record, as created and as returned
  manager_fields,    \* ServiceManager read by threads: _scraper, _distance_calculator, _negative_nancy
  reader_pc,         \* each thread's position in the property it reads
  reader_service,    \* the property each thread reads
  reader_new,        \* the instance each thread constructed and has yet to store
  reader_got,        \* the instance each thread's read returned
  constructions,     \* history: the number of instances constructed, by service
  distances,         \* the report handed to format_distance_summary / got by get_nearest_locations
  limit,             \* get_nearest_locations: argument
  summary,           \* format_distance_summary: its list of lines when it ends
  summary_returned,  \* format_distance_summary: what the call returned
  nearest_locations, \* get_nearest_locations: what the call returned
  agent_input,       \* PropertyAgent.analyze_property: its arguments and what the model answers
  agent_result,      \* PropertyAgent.analyze_property: how the call ended
  gallery_pc,        \* _get_images: where it stands
  images,            \* _get_images: line 272
  seen_images,       \* _get_images: line 298
  no_new_images_count, \* _get_images: line 300
  src                \* _get_images: line 315, the source of the image shown last

calculator_vars ==
  <<pc, property_address, categories_arg, categories, cat_pos, results,
    category_results, locations, destinations, idx, initial_route, result,
    suburb, store_pos, grocery_locations, seen_addresses, response, deviations,
    places_requests, route_requests, initial_meters, route_log>>

format_vars == <<duration_seconds, duration_text, formatted>>

api_vars ==
  <<analysis_sessions, http_request, http_response, service_calls, issued, handled,
    _scraper, _negative_nancy, sessions_log>>

thread_vars ==
  <<manager_fields, reader_pc, reader_service, reader_new, reader_got, constructions>>

report_vars == <<distances, limit, summary, summary_returned, nearest_locations>>

agent_vars == <<agent_input, agent_result>>

gallery_vars == <<gallery_pc, images, seen_images, no_new_images_count, src>>

side_vars == <<thread_vars, report_vars, agent_vars, gallery_vars>>

main_vars == <<calculator_vars, earlier_addresses, format_vars, api_vars>>

\* What the steps of each of these leave alone.
outside_threads == <<main_vars, report_vars, agent_vars, gallery_vars>>
outside_reports == <<main_vars, thread_vars, agent_vars, gallery_vars>>
outside_agent == <<main_vars, thread_vars, report_vars, gallery_vars>>
outside_gallery == <<main_vars, thread_vars, report_vars, agent_vars>>

vars == <<calculator_vars, earlier_addresses, format_vars, api_vars, side_vars>>

\* What the calculator's steps leave alone.
OutsideUnchanged == UNCHANGED <<earlier_addresses, format_vars, api_vars, side_vars>>

\* The loop variable of line 270.
category == categories[cat_pos]

\* The loop variable of line 285.
destination == destinations[idx]

\* The set of accepted addresses outlives the call of _get_grocery_locations.
NoGroceryFrame_keeping_seen_addresses ==
  /\ suburb' = <<>>
  /\ store_pos' = 1
  /\ grocery_locations' = <<>>
  /\ seen_addresses' = seen_addresses
  /\ response' = None

\* The locals of _get_grocery_locations, before it is entered and after it returned.
NoGroceryFrame ==
  /\ suburb' = <<>>
  /\ store_pos' = 1
  /\ grocery_locations' = <<>>
  /\ seen_addresses' = {}
  /\ response' = None

GroceryFrameUnchanged ==
  UNCHANGED <<suburb, store_pos, grocery_locations, seen_addresses, response>>

\* Lines 26-37: the instance holds its key and the two endpoints; no call is
\* under way.
CalculatorInit ==
  /\ pc = "idle"
  /\ property_address = <<>>
  /\ categories_arg = [given |-> FALSE]
  /\ categories = <<>>
  /\ cat_pos = 1
  /\ results = EmptyDict
  /\ category_results = <<>>
  /\ locations = <<>>
  /\ destinations = <<>>
  /\ idx = 1
  /\ initial_route = None
  /\ result = EmptyDict
  /\ suburb = <<>>
  /\ store_pos = 1
  /\ grocery_locations = <<>>
  /\ seen_addresses = {}
  /\ response = None
  /\ deviations = 0
  /\ places_requests = <<>>
  /\ route_requests = <<>>
  /\ initial_meters = EmptyDict
  /\ route_log = <<>>

\* No duration is being rendered.
FormatIdle ==
  /\ duration_seconds = 0
  /\ duration_text = ""
  /\ formatted = ""

\* routes.py lines 42-46 and 151: no service, no session; no request has been
\* handled.
ApiInit ==
  /\ analysis_sessions = EmptyDict
  /\ http_request = None
  /\ http_response = None
  /\ service_calls = <<>>
  /\ issued = <<>>
  /\ handled = 0
  /\ _scraper = None
  /\ _negative_nancy = None
  /\ sessions_log = <<>>

\* The threads that read the manager's properties.
MaxThreads == 2
Threads == 1..MaxThreads

\* The manager's three properties.
Services == {"scraper", "distance_calculator", "negative_nancy"}

\* routes.py lines 42-46: a manager without services, which no thread reads.
ThreadsIdle ==
  /\ manager_fields = [s \in Services |-> None]
  /\ reader_pc = [t \in Threads |-> "idle"]
  /\ reader_service = [t \in Threads |-> None]
  /\ reader_new = [t \in Threads |-> None]
  /\ reader_got = [t \in Threads |-> None]
  /\ constructions = [s \in Services |-> 0]

\* The value of a result variable before the call.
NotCalled == [not_called |-> TRUE]

\* Neither format_distance_summary nor get_nearest_locations has been called
\* (limit has its default, line 363).
ReportsIdle ==
  /\ distances = EmptyDict
  /\ limit = 1
  /\ summary = <<>>
  /\ summary_returned = NotCalled
  /\ nearest_locations = NotCalled

\* PropertyAgent.analyze_property has not been called.
AgentIdle ==
  /\ agent_input = None
  /\ agent_result = NotCalled

\* _get_images has not been called.
GalleryIdle ==
  /\ gallery_pc = "idle"
  /\ images = <<>>
  /\ seen_images = {}
  /\ no_new_images_count = 0
  /\ src = None

SideIdle == ThreadsIdle /\ ReportsIdle /\ AgentIdle /\ GalleryIdle

Init ==
  /\ CalculatorInit
  /\ earlier_addresses = {}
  /\ FormatIdle
  /\ ApiInit
  /\ SideIdle

(***************************************************************************)
(* calculate_distances                                                     *)
(***************************************************************************)

\* Walking times for every category.
wants_walking_everywhere(c) == TRUE

\* Peak times for the schools too.
wants_peaks_for_schools(c) == c \in {"work", "schools"}

\* The category enters the report whether it has entries or not.
store_category_always(report, c, entries) == (c :> entries) @@ report

\* Line 330: the categories that get walking times.
wants_walking(c) == c \in {"groceries", "schools"}

\* Line 338: the categories that get peak times.
wants_peaks(c) == c = "work"

\* Lines 358-359: the report after a category whose entries are entries.
store_category(report, c, entries) ==
  IF entries # <<>> THEN (c :> entries) @@ report ELSE report

\* Lines 257-268: calculate_distances(address, arg) is entered.
Enter(address, arg) ==
  /\ pc \in {"idle", "returned", "raised"}
  /\ pc' = "category"
  /\ property_address' = address
  /\ categories_arg' = arg
  /\ categories' = IF ~arg.given \/ arg.list = <<>> THEN LOCATIONS_keys ELSE arg.list
  /\ cat_pos' = 1
  /\ results' = EmptyDict
  /\ category_results' = <<>>
  /\ locations' = <<>>
  /\ destinations' = <<>>
  /\ idx' = 1
  /\ initial_route' = None
  /\ result' = EmptyDict
  /\ NoGroceryFrame
  /\ deviations' = 0
  /\ places_requests' = <<>>
  /\ route_requests' = <<>>
  /\ initial_meters' = EmptyDict
  /\ route_log' = <<>>

\* A call of calculate_distances(address, arg).
Call(address, arg) ==
  /\ Enter(address, arg)
  /\ OutsideUnchanged

\* The grocery addresses of a report.
grocery_addresses(report) ==
  LET entries == dict_get(report, "groceries", <<>>)
  IN  {entries[k].destination : k \in DOMAIN entries}

\* A call of calculate_distances(address, arg) on an instance whose earlier
\* calls are remembered by what they reported.
CallAgain(address, arg) ==
  /\ Enter(address, arg)
  /\ earlier_addresses' = earlier_addresses \cup grocery_addresses(results)
  /\ UNCHANGED <<format_vars, api_vars, side_vars>>

\* Lines 270-283 (and 75-81 of _get_grocery_locations): the next category's
\* locations, up to the first request it needs.
StartCategory ==
  /\ pc = "category"
  /\ cat_pos <= Len(categories)
  /\ category_results' = <<>>
  /\ idx' = 1
  /\ IF category = "groceries"
     THEN LET got == _get_suburb_from_address(property_address)
          IN  IF got.raised
              THEN /\ pc' = "raised"
                   /\ UNCHANGED <<locations, destinations>>
                   /\ NoGroceryFrame
              ELSE IF got.value = <<>>
              THEN /\ pc' = "destination"
                   /\ locations' = <<>>
                   /\ destinations' = <<>>
                   /\ NoGroceryFrame
              ELSE /\ pc' = "places"
                   /\ suburb' = got.value
                   /\ store_pos' = 1
                   /\ grocery_locations' = <<>>
                   /\ seen_addresses' = {}
                   /\ response' = None
                   /\ UNCHANGED <<locations, destinations>>
     ELSE /\ pc' = "destination"
          /\ locations' = dict_get(LOCATIONS, category, <<>>)
          /\ destinations' = dict_get(LOCATIONS, category, <<>>)
          /\ GroceryFrameUnchanged
  /\ UNCHANGED <<property_address, categories_arg, categories, cat_pos, results,
                 initial_route, result, deviations, places_requests,
                 route_requests, initial_meters, route_log>>
  /\ OutsideUnchanged

\* Lines 83-148: the places search for the next store and what the loop's
\* pass does with the response.
PlacesSearch(reply) ==
  /\ pc = "places"
  /\ store_pos <= Len(LOCATIONS.groceries)
  /\ reply = UsualPlaces(LOCATIONS.groceries[store_pos]) \/ deviations < MaxDeviations
  /\ deviations' = IF reply = UsualPlaces(LOCATIONS.groceries[store_pos])
                   THEN deviations ELSE deviations + 1
  /\ LET store == LOCATIONS.groceries[store_pos]
         after == search_store(store, suburb, reply, grocery_locations, seen_addresses)
     IN  /\ places_requests' = Append(places_requests, search_query(store, suburb))
         /\ response' = reply
         /\ grocery_locations' = after.grocery_locations
         /\ seen_addresses' = after.seen_addresses
  /\ store_pos' = store_pos + 1
  /\ UNCHANGED <<pc, property_address, categories_arg, categories, cat_pos,
                 results, category_results, locations, destinations, idx,
                 initial_route, result, suburb, route_requests, initial_meters,
                 route_log>>
  /\ OutsideUnchanged

\* Lines 150-151 and 276-279: _get_grocery_locations returns.
GroceriesResolved ==
  /\ pc = "places"
  /\ store_pos > Len(LOCATIONS.groceries)
  /\ pc' = "destination"
  /\ locations' = grocery_locations
  /\ destinations' = [i \in 1..Len(grocery_locations) |-> grocery_locations[i].formatted_address]
  /\ NoGroceryFrame
  /\ UNCHANGED <<property_address, categories_arg, categories, cat_pos, results,
                 category_results, idx, initial_route, result, deviations,
                 places_requests, route_requests, initial_meters, route_log>>
  /\ OutsideUnchanged

\* The routes API answers a query for mode with reply.
Answer(mode, reply) ==
  /\ reply \in RouteReplies(mode)
  /\ reply = UsualRoute(mode) \/ deviations < MaxDeviations
  /\ deviations' = IF reply = UsualRoute(mode) THEN deviations ELSE deviations + 1

Query(mode, departure_time) == [mode |-> mode, departure_time |-> departure_time]

\* The query of the current destination and its answer enter the log.
Logged(query, reply) ==
  route_log' = Append(route_log, [pass |-> cat_pos, idx |-> idx,
                                  destination |-> destination,
                                  query |-> query, answer |-> Heard(reply)])

\* Lines 352-353: the entry is appended and the loop goes to the next destination.
Append_result(entry) ==
  /\ category_results' = Append(category_results, entry)
  /\ idx' = idx + 1
  /\ initial_route' = None
  /\ result' = EmptyDict
  /\ pc' = "destination"

\* Lines 285-296: the initial driving query of the next destination.
InitialRoute(reply) ==
  /\ pc = "destination"
  /\ idx <= Len(destinations)
  /\ Answer("DRIVE", reply)
  /\ route_requests' = <<Query("DRIVE", "current_time")>>
  /\ Logged(Query("DRIVE", "current_time"), reply)
  /\ LET route == _get_travel_time(property_address, destination, "DRIVE",
                                    "current_time", reply)
     IN  IF route # None
         THEN /\ initial_route' = route
              /\ pc' = "drive_current"
              /\ idx' = idx
         ELSE /\ initial_route' = None
              /\ pc' = "destination"
              /\ idx' = idx + 1
  /\ initial_meters' =
       IF RouteFailure(reply) THEN initial_meters
       ELSE (<<category, destination>> :> reply.data.routes[1].distanceMeters)
              @@ initial_meters
  /\ UNCHANGED <<property_address, categories_arg, categories, cat_pos, results,
                 category_results, locations, destinations, result,
                 places_requests>>
  /\ GroceryFrameUnchanged
  /\ OutsideUnchanged

\* The entry stays the current one and the next request is the one of pc'.
Continue(entry, next) ==
  /\ result' = entry
  /\ pc' = next
  /\ UNCHANGED <<category_results, idx, initial_route>>

\* What a step of the destination's pass leaves alone.
PassUnchanged ==
  /\ UNCHANGED <<property_address, categories_arg, categories, cat_pos, results,
                 locations, destinations, places_requests, initial_meters>>
  /\ GroceryFrameUnchanged
  /\ OutsideUnchanged

\* The store of the first resolved location, whichever destination is processed.
store_info_of_first(locs, i) ==
  [name |-> locs[1].name,
   display_name |-> locs[1].display_name,
   formatted_address |-> locs[1].formatted_address]

\* Lines 315-319: the store_info of the destination at position i of the
\* enumeration, taken from locations at the same position.
store_info(locs, i) ==
  [name |-> locs[i].name,
   display_name |-> locs[i].display_name,
   formatted_address |-> locs[i].formatted_address]

\* Lines 297-320: the entry is created; its driving/current cell is the
\* result of a second driving query, and groceries get their store_info.
DriveCurrent(reply) ==
  /\ pc = "drive_current"
  /\ Answer("DRIVE", reply)
  /\ route_requests' = Append(route_requests, Query("DRIVE", "current_time"))
  /\ Logged(Query("DRIVE", "current_time"), reply)
  /\ LET current == _get_travel_time(property_address, destination, "DRIVE",
                                      "current_time", reply)
         entry == [destination |-> destination,
                   distance |-> [text |-> initial_route.text,
                                 value |-> initial_route.value],
                   modes |-> [driving |-> [current |-> current]]]
     IN  IF category = "groceries"
         THEN Continue(entry @@ [store_info |-> store_info(locations, idx)],
                       "transit_current")
         ELSE Continue(entry, "transit_current")
  /\ PassUnchanged

\* Lines 323-327, and the tests of lines 330 and 338 up to the next request.
TransitCurrent(reply) ==
  /\ pc = "transit_current"
  /\ Answer("TRANSIT", reply)
  /\ route_requests' = Append(route_requests, Query("TRANSIT", "current_time"))
  /\ Logged(Query("TRANSIT", "current_time"), reply)
  /\ LET current == _get_travel_time(property_address, destination, "TRANSIT",
                                      "current_time", reply)
         entry == [result EXCEPT !.modes = @ @@ [transit |-> [current |-> current]]]
     IN  IF wants_walking(category) THEN Continue(entry, "walking_current")
         ELSE IF wants_peaks(category) THEN Continue(entry, "drive_morning_peak")
         ELSE Append_result(entry)
  /\ PassUnchanged

\* Lines 331-335, and the test of line 338.
WalkingCurrent(reply) ==
  /\ pc = "walking_current"
  /\ Answer("WALK", reply)
  /\ route_requests' = Append(route_requests, Query("WALK", "current_time"))
  /\ Logged(Query("WALK", "current_time"), reply)
  /\ LET current == _get_travel_time(property_address, destination, "WALK",
                                      "current_time", reply)
         entry == [result EXCEPT !.modes = @ @@ [walking |-> [current |-> current]]]
     IN  IF wants_peaks(category) THEN Continue(entry, "drive_morning_peak")
         ELSE Append_result(entry)
  /\ PassUnchanged

\* A query that failed leaves a duration of no time in its cell.
set_cell_defaulting(entry, mode, window, cell) ==
  [entry EXCEPT !.modes[mode] =
     @ @@ (window :> IF cell = None THEN [text |-> "0 min", value |-> 0] ELSE cell)]

\* result["modes"][mode][window] = cell
set_cell(entry, mode, window, cell) ==
  [entry EXCEPT !.modes[mode] = @ @@ (window :> cell)]

\* Lines 339-341.
DriveMorningPeak(reply) ==
  /\ pc = "drive_morning_peak"
  /\ Answer("DRIVE", reply)
  /\ route_requests' = Append(route_requests, Query("DRIVE", "morning_peak"))
  /\ Logged(Query("DRIVE", "morning_peak"), reply)
  /\ Continue(set_cell(result, "driving", "morning_peak",
                       _get_travel_time(property_address, destination, "DRIVE",
                                        "morning_peak", reply)),
              "drive_evening_peak")
  /\ PassUnchanged

\* Lines 342-344.
DriveEveningPeak(reply) ==
  /\ pc = "drive_evening_peak"
  /\ Answer("DRIVE", reply)
  /\ route_requests' = Append(route_requests, Query("DRIVE", "evening_peak"))
  /\ Logged(Query("DRIVE", "evening_peak"), reply)
  /\ Continue(set_cell(result, "driving", "evening_peak",
                       _get_travel_time(property_address, destination, "DRIVE",
                                        "evening_peak", reply)),
              "transit_morning_peak")
  /\ PassUnchanged

\* Lines 345-347.
TransitMorningPeak(reply) ==
  /\ pc = "transit_morning_peak"
  /\ Answer("TRANSIT", reply)
  /\ route_requests' = Append(route_requests, Query("TRANSIT", "morning_peak"))
  /\ Logged(Query("TRANSIT", "morning_peak"), reply)
  /\ Continue(set_cell(result, "transit", "morning_peak",
                       _get_travel_time(property_address, destination, "TRANSIT",
                                        "morning_peak", reply)),
              "transit_evening_peak")
  /\ PassUnchanged

\* Lines 348-353.
TransitEveningPeak(reply) ==
  /\ pc = "transit_evening_peak"
  /\ Answer("TRANSIT", reply)
  /\ route_requests' = Append(route_requests, Query("TRANSIT", "evening_peak"))
  /\ Logged(Query("TRANSIT", "evening_peak"), reply)
  /\ Append_result(set_cell(result, "transit", "evening_peak",
                            _get_travel_time(property_address, destination, "TRANSIT",
                                             "evening_peak", reply)))
  /\ PassUnchanged

\* Lines 358-359, at the end of the loop over the destinations: the
\* category's entries enter the report if there are any.
FinishCategory ==
  /\ pc = "destination"
  /\ idx > Len(destinations)
  /\ results' = store_category(results, category, category_results)
  /\ cat_pos' = cat_pos + 1
  /\ pc' = "category"
  /\ UNCHANGED <<property_address, categories_arg, categories, category_results,
                 locations, destinations, idx, initial_route, result, deviations,
                 places_requests, route_requests, initial_meters, route_log>>
  /\ GroceryFrameUnchanged
  /\ OutsideUnchanged

\* Line 361: the report is returned; the locals are gone.
Return ==
  /\ pc = "category"
  /\ cat_pos > Len(categories)
  /\ pc' = "returned"
  /\ category_results' = <<>>
  /\ locations' = <<>>
  /\ destinations' = <<>>
  /\ idx' = 1
  /\ route_requests' = <<>>
  /\ UNCHANGED <<property_address, categories_arg, categories, cat_pos, results,
                 initial_route, result, deviations, places_requests,
                 initial_meters, route_log>>
  /\ GroceryFrameUnchanged
  /\ OutsideUnchanged

Next ==
  \/ \E address \in PropertyAddresses, arg \in CategoryArguments : Call(address, arg)
  \/ StartCategory
  \/ \E reply \in PlacesResponses : PlacesSearch(reply)
  \/ GroceriesResolved
  \/ \E reply \in RouteReplies("DRIVE") : InitialRoute(reply)
  \/ \E reply \in RouteReplies("DRIVE") : DriveCurrent(reply)
  \/ \E reply \in RouteReplies("TRANSIT") : TransitCurrent(reply)
  \/ \E reply \in RouteReplies("WALK") : WalkingCurrent(reply)
  \/ \E reply \in RouteReplies("DRIVE") : DriveMorningPeak(reply)
  \/ \E reply \in RouteReplies("DRIVE") : DriveEveningPeak(reply)
  \/ \E reply \in RouteReplies("TRANSIT") : TransitMorningPeak(reply)
  \/ \E reply \in RouteReplies("TRANSIT") : TransitEveningPeak(reply)
  \/ FinishCategory
  \/ Return

Spec == Init /\ [][Next]_vars

\* The arguments of the calls on one instance, one call after another.
RepeatedArguments ==
  { [given |-> TRUE, list |-> <<"groceries">>],
    [given |-> TRUE, list |-> <<"work">>] }

\* The answers of the places API to these calls: the usual ones, the two
\* stores of Hall St in one answer, no answer at all.
RepeatedPlacesResponses ==
  {UsualPlaces(LOCATIONS.groceries[k]) : k \in DOMAIN LOCATIONS.groceries}
    \cup { HttpResponse(200, [places |-> <<WoolworthsBondi, ColesExpress>>]),
           RequestException }

\* Calls on one instance, one after another.
NextCalls ==
  \/ \E arg \in RepeatedArguments : CallAgain(AddressBondi, arg)
  \/ StartCategory
  \/ \E reply \in RepeatedPlacesResponses : PlacesSearch(reply)
  \/ GroceriesResolved
  \/ \E reply \in RouteReplies("DRIVE") : InitialRoute(reply)
  \/ \E reply \in RouteReplies("DRIVE") : DriveCurrent(reply)
  \/ \E reply \in RouteReplies("TRANSIT") : TransitCurrent(reply)
  \/ \E reply \in RouteReplies("WALK") : WalkingCurrent(reply)
  \/ \E reply \in RouteReplies("DRIVE") : DriveMorningPeak(reply)
  \/ \E reply \in RouteReplies("DRIVE") : DriveEveningPeak(reply)
  \/ \E reply \in RouteReplies("TRANSIT") : TransitMorningPeak(reply)
  \/ \E reply \in RouteReplies("TRANSIT") : TransitEveningPeak(reply)
  \/ FinishCategory
  \/ Return

SpecCalls == Init /\ [][NextCalls]_vars

(***************************************************************************)
(* The two renderings of a duration                                        *)
(***************************************************************************)

\* The longest duration rendered, in seconds.
MaxSeconds == 7300

\* str(n) for a natural number n.
RECURSIVE int_str(_)
int_str(n) ==
  IF n < 10 THEN <<DIGITS[n + 1]>>
  ELSE Append(int_str(n \div 10), DIGITS[(n % 10) + 1])

\* The routes API's serialization of a duration: "<seconds>s".
duration_field(seconds) == Append(int_str(seconds), "s")

InitFormat ==
  /\ CalculatorInit
  /\ earlier_addresses = {}
  /\ duration_seconds \in 0..MaxSeconds
  /\ duration_text = ""
  /\ formatted = ""
  /\ ApiInit
  /\ SideIdle

\* Lines 217-223: _get_travel_time renders the duration of the route it is
\* answered.
RenderInline ==
  /\ duration_text = ""
  /\ duration_text' =
       _get_travel_time(AddressBondi, WynardStation, "DRIVE", "current_time",
                        Route(duration_field(duration_seconds), 0)).text
  /\ UNCHANGED <<calculator_vars, earlier_addresses, api_vars, side_vars, duration_seconds,
                 formatted>>

\* Lines 453-455: _format_duration(duration_seconds).
Format ==
  /\ formatted = ""
  /\ formatted' = _format_duration(duration_seconds)
  /\ UNCHANGED <<calculator_vars, earlier_addresses, api_vars, side_vars, duration_seconds,
                 duration_text>>

NextFormat ==
  \/ RenderInline
  \/ Format

SpecFormat == InitFormat /\ [][NextFormat]_vars

(***************************************************************************)
(* The endpoints: initialize_property (backend/api/routes.py and           *)
(* src/api/routes.py, the same handler) and get_distances (archive/api.py) *)
(***************************************************************************)

\* "https://www.domain.com.au/"
DOMAIN_PREFIX ==
  <<"h","t","t","p","s",":","/","/","w","w","w",".","d","o","m","a","i","n",
    ".","c","o","m",".","a","u","/">>

\* "https://www.domain.com.au/p-1"
ListingUrl ==
  <<"h","t","t","p","s",":","/","/","w","w","w",".","d","o","m","a","i","n",
    ".","c","o","m",".","a","u","/","p","-","1">>

\* "https://invalid-domain.com.au/invalid-property"
InvalidDomainUrl ==
  <<"h","t","t","p","s",":","/","/","i","n","v","a","l","i","d","-","d","o",
    "m","a","i","n",".","c","o","m",".","a","u","/","i","n","v","a","l","i",
    "d","-","p","r","o","p","e","r","t","y">>

\* "https://www.domain.com.au": the prefix without its last slash
NoSlashUrl ==
  <<"h","t","t","p","s",":","/","/","w","w","w",".","d","o","m","a","i","n",
    ".","c","o","m",".","a","u">>

\* "http://www.domain.com.au/p-1"
HttpUrl ==
  <<"h","t","t","p",":","/","/","w","w","w",".","d","o","m","a","i","n",".",
    "c","o","m",".","a","u","/","p","-","1">>

Urls == {ListingUrl, InvalidDomainUrl, NoSlashUrl, HttpUrl}

\* s.startswith(prefix)
str_startswith(s, prefix) ==
  Len(s) >= Len(prefix) /\ SubSeq(s, 1, Len(prefix)) = prefix

\* Any URL that names domain.com.au is accepted.
valid_url_any_domain(url) ==
  str_contains(<<"d","o","m","a","i","n",".","c","o","m",".","a","u">>, url)

\* Line 191: request.url.startswith("https://www.domain.com.au/")
valid_url(url) == str_startswith(url, DOMAIN_PREFIX)

\* The address is looked up in every property data that has an address.
has_full_address_whenever_address(property_data) == "address" \in DOMAIN property_data

\* Line 225: "address" in property_data and "full_address" in property_data["address"]
has_full_address(property_data) ==
  /\ "address" \in DOMAIN property_data
  /\ "full_address" \in DOMAIN property_data.address

\* not v, for v a dict or None
falsy(v) == v = None \/ v = EmptyDict

\* dict.update(new)
dict_update(d, new) == new @@ d

\* The property data of a listing, as the scraper builds it (scraper.py lines
\* 81-106), cut down to its url and its address.
Listing ==
  [basic_info |-> [url |-> ListingUrl], address |-> [full_address |-> AddressBondi]]

\* Property data without address, and with an address that has no full_address.
ListingNoAddress == [basic_info |-> [url |-> ListingUrl]]
ListingBareAddress == [basic_info |-> [url |-> ListingUrl], address |-> EmptyDict]

\* What the use of service_manager.scraper comes to: DomainScraper() raises,
\* or get_property_data returns None, an empty dict or property data.
ScraperOutcomes ==
  { Raises, Returns(None), Returns(EmptyDict), Returns(Listing),
    Returns(ListingNoAddress), Returns(ListingBareAddress) }

\* The driver of the scraper once get_property_data has returned without
\* quitting the browser.
driver_after_get_property_data_left_open(driver) == driver

\* scraper.py lines 129-131: on every exit of get_property_data the browser
\* has been quit; nothing starts another.
driver_after_get_property_data(driver) == "quit"

\* What service_manager.scraper.get_property_data(url) comes to, by the state
\* of ServiceManager._scraper.  Without scraper, DomainScraper() raises or
\* starts a browser, and the call runs against it.  With the scraper of an
\* earlier request: on a live driver the call does as the first one; on a
\* driver that was quit, driver.get raises, which line 126 turns into None,
\* unless the second quit of line 131 raises in its turn.
scraper_outcomes(manager_scraper) ==
  IF manager_scraper = None THEN ScraperOutcomes
  ELSE IF manager_scraper.driver = "live" THEN ScraperOutcomes \ {Raises}
  ELSE {Returns(None), Raises}

\* routes.py lines 48-54 and 206: ServiceManager._scraper after the request
\* used service_manager.scraper with the given outcome.
scraper_after(manager_scraper, outcome) ==
  IF manager_scraper = None
  THEN IF outcome.raised THEN None
       ELSE [driver |-> driver_after_get_property_data("live")]
  ELSE [driver |-> driver_after_get_property_data(manager_scraper.driver)]

\* A report with one work destination.
WorkReport ==
  [work |-> <<[destination |-> WynardStation,
               distance |-> [text |-> "30 min", value |-> 1800],
               modes |-> [driving |-> [current |-> [text |-> "30 min", value |-> 1800]]]]>>]

\* The reports calculate_distances returns to the endpoints.
Reports == {EmptyDict, WorkReport}

\* request.categories
RequestCategories == {[given |-> FALSE], [given |-> TRUE, list |-> <<"work">>]}

\* The readings of datetime.now().timestamp(); the wall clock may give one
\* reading twice.
Timestamps == 1..2

\* The most requests handled.
MaxRequests == 2

InvalidUrlError == "Invalid URL format. URL must be from domain.com.au"
FetchError ==
  "Failed to fetch property data. The URL may be invalid or the property listing may no longer exist."
UnexpectedError == "An unexpected error occurred"

\* PropertyInitializationResponse(...)
PropertyInitializationResponse(session_id, status, property_data, distance_info, error) ==
  [session_id |-> session_id, status |-> status, property_data |-> property_data,
   distance_info |-> distance_info, error |-> error]

\* Lines 178-263 for one request: the session's record when the handler
\* returns, the body of its response and the services it called.  The times
\* of day in the record (created_at, initialized_at) are left out.
initialize_property(url, wanted, session_id, scraper, report) ==
  LET initializing == [status |-> "initializing", url |-> url]
      failed(error, calls) ==
        [created |-> initializing,
         session |-> dict_update(initializing, [status |-> "error", error |-> error]),
         body |-> PropertyInitializationResponse(session_id, "error", None, None, error),
         calls |-> calls]
      scraper_call == [service |-> "scraper", url |-> url]
  IN  IF ~valid_url(url) THEN failed(InvalidUrlError, <<>>)
      ELSE IF scraper.raised THEN failed(UnexpectedError, <<scraper_call>>)
      ELSE IF falsy(scraper.value) THEN failed(FetchError, <<scraper_call>>)
      ELSE
        LET property_data == scraper.value
            ready(distance_info, calls) ==
              [created |-> initializing,
               session |-> dict_update(initializing,
                                       [status |-> "ready",
                                        property_data |-> property_data,
                                        distance_info |-> distance_info]),
               body |-> PropertyInitializationResponse(session_id, "ready", property_data,
                                                       distance_info, None),
               calls |-> calls]
        IN  IF has_full_address(property_data)
            THEN IF "full_address" \in DOMAIN property_data.address
                 THEN ready(report,
                            <<scraper_call,
                              [service |-> "distance_calculator",
                               address |-> property_data.address.full_address,
                               categories |-> wanted]>>)
                 ELSE failed(UnexpectedError, <<scraper_call>>)
            ELSE ready(None, <<scraper_call>>)

\* POST /api/v1/initialize: the handler has no await, so it runs from its
\* first line to its return before another request is handled.
InitializeProperty(url, wanted, now, scraper, report) ==
  /\ handled < MaxRequests
  /\ scraper \in scraper_outcomes(_scraper)
  /\ handled' = handled + 1
  /\ http_request' = [endpoint |-> "initialize", url |-> url, categories |-> wanted,
                      scraper |-> scraper, report |-> report]
  /\ LET out == initialize_property(url, wanted, now, scraper, report)
     IN  /\ analysis_sessions' = (now :> out.session) @@ analysis_sessions
         /\ http_response' = [status_code |-> 200, body |-> out.body]
         /\ service_calls' = out.calls
         /\ sessions_log' = Append(sessions_log,
                                   [session_id |-> now, created |-> out.created,
                                    returned |-> out.session,
                                    status |-> out.body.status])
  /\ issued' = Append(issued, now)
  /\ _scraper' = IF valid_url(url) THEN scraper_after(_scraper, scraper) ELSE _scraper
  /\ UNCHANGED _negative_nancy
  /\ UNCHANGED <<calculator_vars, earlier_addresses, format_vars, side_vars>>

\* archive/api.py lines 104-116: the status and the body of the answer for
\* the report that calculate_distances returned.
get_distances(distance_info) ==
  IF falsy(distance_info)
  THEN [status_code |-> 500, body |-> [detail |-> "Failed to calculate distances"]]
  ELSE [status_code |-> 200, body |-> distance_info]

\* POST /property/distances
GetDistances(address, report) ==
  /\ handled < MaxRequests
  /\ handled' = handled + 1
  /\ http_request' = [endpoint |-> "distances", address |-> address, report |-> report]
  /\ http_response' = get_distances(report)
  /\ service_calls' = <<[service |-> "distance_calculator", address |-> address,
                         categories |-> [given |-> FALSE]]>>
  /\ UNCHANGED <<analysis_sessions, issued, _scraper, _negative_nancy, sessions_log>>
  /\ UNCHANGED <<calculator_vars, earlier_addresses, format_vars, side_vars>>

\* request.agent
AgentNames == {"negative_nancy", "positive_pete", ""}

\* What agent.analyze_property returns when it returns (base_agent.py line 206).
Analysis == [summary |-> "overpriced"]

\* agent.analyze_property returns its analysis or raises (base_agent.py lines
\* 218-220).
AgentOutcomes == {Returns(Analysis), Raises}

\* negative_nancy.py lines 18-23: the agent NegativeNancy(api_key) constructs.
NegativeNancy == [agent_name |-> "Negative Nancy", persona_file |-> "negative_nancy.txt"]

\* str(e) of an HTTPException: "<status>: <detail>" where the installed
\* Starlette defines __str__, the empty string where it does not.
HTTPException_str(status_code, detail, renders) ==
  IF renders THEN ToString(status_code) \o ": " \o detail ELSE ""

\* HTTPException(status_code, detail), as the client sees it.
HTTPException(status_code, detail) ==
  [status_code |-> status_code, body |-> [detail |-> detail]]

\* Lines 64-81: service_manager.negative_nancy for the given content of
\* _negative_nancy: the agent, or the exception of a missing key or of a
\* constructor that raised; the agent is kept once constructed.
negative_nancy(manager_agent, api_key, constructed) ==
  IF manager_agent # None THEN [agent |-> manager_agent, kept |-> manager_agent]
  ELSE IF ~api_key THEN [agent |-> None, kept |-> None, raised |-> "ValueError"]
  ELSE IF constructed.raised THEN [agent |-> None, kept |-> None, raised |-> "Exception"]
  ELSE [agent |-> constructed.value, kept |-> constructed.value]

\* Lines 265-301: the answer to an analyze request, the agent the manager
\* keeps and the analyses run.  The 400 of line 279 is raised inside the try
\* of line 275, and the handler of lines 299-301 catches every Exception, the
\* HTTPException among them, and raises a 500 with its text.
analyze_property(agent_name, manager_agent, api_key, constructed, analysis, renders) ==
  IF agent_name = "negative_nancy"
  THEN LET got == negative_nancy(manager_agent, api_key, constructed)
       IN  IF got.agent = None
           THEN [response |-> HTTPException(500, got.raised), kept |-> got.kept,
                 calls |-> <<>>]
           ELSE IF analysis.raised
           THEN [response |-> HTTPException(500, "Exception"), kept |-> got.kept,
                 calls |-> <<[service |-> "negative_nancy"]>>]
           ELSE [response |-> [status_code |-> 200,
                               body |-> [analysis |-> analysis.value @@ [agent |-> agent_name],
                                         agent |-> agent_name]],
                 kept |-> got.kept,
                 calls |-> <<[service |-> "negative_nancy"]>>]
  ELSE [response |-> HTTPException(500, HTTPException_str(400, "Unknown agent: " \o agent_name,
                                                          renders)),
        kept |-> manager_agent,
        calls |-> <<>>]

\* POST /api/v1/analyze
AnalyzeProperty(agent_name, api_key, constructed, analysis, renders) ==
  /\ handled < MaxRequests
  /\ handled' = handled + 1
  /\ http_request' = [endpoint |-> "analyze", agent |-> agent_name]
  /\ LET out == analyze_property(agent_name, _negative_nancy, api_key, constructed,
                                  analysis, renders)
     IN  /\ http_response' = out.response
         /\ _negative_nancy' = out.kept
         /\ service_calls' = out.calls
  /\ UNCHANGED <<analysis_sessions, issued, _scraper, sessions_log>>
  /\ UNCHANGED <<calculator_vars, earlier_addresses, format_vars, side_vars>>

NextRoutes ==
  \/ \E url \in Urls, wanted \in RequestCategories, now \in Timestamps,
        scraper \in ScraperOutcomes, report \in Reports :
       InitializeProperty(url, wanted, now, scraper, report)
  \/ \E report \in Reports : GetDistances(AddressBondi, report)
  \/ \E agent_name \in AgentNames, api_key \in BOOLEAN,
        constructed \in {Returns(NegativeNancy), Raises},
        analysis \in AgentOutcomes, renders \in BOOLEAN :
       AnalyzeProperty(agent_name, api_key, constructed, analysis, renders)

SpecRoutes == Init /\ [][NextRoutes]_vars

(***************************************************************************)
(* ServiceManager read by several threads                                  *)
(***************************************************************************)

\* The thread starts to read the property: `service_manager.<service>`.
ReadProperty(t, service) ==
  /\ reader_pc[t] = "idle"
  /\ reader_pc' = [reader_pc EXCEPT ![t] = "test"]
  /\ reader_service' = [reader_service EXCEPT ![t] = service]
  /\ UNCHANGED <<manager_fields, reader_new, reader_got, constructions>>
  /\ UNCHANGED outside_threads

\* Lines 51, 59, 67: `if self._<service> is None:`.  Nothing is locked
\* (self._lock is None and never used), so another thread may run between
\* the test and what follows it.
TestField(t) ==
  /\ reader_pc[t] = "test"
  /\ reader_pc' = [reader_pc EXCEPT ![t] =
                     IF manager_fields[reader_service[t]] = None
                     THEN "construct" ELSE "return"]
  /\ UNCHANGED <<manager_fields, reader_service, reader_new, reader_got, constructions>>
  /\ UNCHANGED outside_threads

\* The right-hand sides of lines 53, 61 and 76: the service is constructed;
\* lines 69-73: without GEMINI_API_KEY the negative_nancy property raises.
Construct(t, api_key) ==
  /\ reader_pc[t] = "construct"
  /\ IF reader_service[t] = "negative_nancy" /\ ~api_key
     THEN /\ reader_pc' = [reader_pc EXCEPT ![t] = "raised"]
          /\ UNCHANGED <<reader_new, constructions>>
     ELSE /\ reader_pc' = [reader_pc EXCEPT ![t] = "store"]
          /\ constructions' =
               [constructions EXCEPT ![reader_service[t]] = @ + 1]
          /\ reader_new' =
               [reader_new EXCEPT ![t] =
                  [service |-> reader_service[t],
                   instance |-> constructions[reader_service[t]] + 1]]
  /\ UNCHANGED <<manager_fields, reader_service, reader_got>>
  /\ UNCHANGED outside_threads

\* The assignments of lines 53, 61 and 76: `self._<service> = ...`.
StoreField(t) ==
  /\ reader_pc[t] = "store"
  /\ manager_fields' = [manager_fields EXCEPT ![reader_service[t]] = reader_new[t]]
  /\ reader_new' = [reader_new EXCEPT ![t] = None]
  /\ reader_pc' = [reader_pc EXCEPT ![t] = "return"]
  /\ UNCHANGED <<reader_service, reader_got, constructions>>
  /\ UNCHANGED outside_threads

\* Lines 54, 62, 81: `return self._<service>`.
ReturnField(t) ==
  /\ reader_pc[t] = "return"
  /\ reader_got' = [reader_got EXCEPT ![t] = manager_fields[reader_service[t]]]
  /\ reader_pc' = [reader_pc EXCEPT ![t] = "done"]
  /\ UNCHANGED <<manager_fields, reader_service, reader_new, constructions>>
  /\ UNCHANGED outside_threads

NextThreads ==
  \/ \E t \in Threads, service \in Services : ReadProperty(t, service)
  \/ \E t \in Threads : TestField(t)
  \/ \E t \in Threads, api_key \in BOOLEAN : Construct(t, api_key)
  \/ \E t \in Threads : StoreField(t)
  \/ \E t \in Threads : ReturnField(t)

SpecThreads == Init /\ [][NextThreads]_vars

(***************************************************************************)
(* get_nearest_locations and format_distance_summary                       *)
(***************************************************************************)

\* The most entries of one category in a report handed to the two functions
\* (LOCATIONS has four grocery brands).
MaxEntries == 3

\* The largest limit asked for.
MaxLimit == 2

\* The limits asked for; a negative one among them.
Limits == (0 - 1)..MaxLimit

\* The durations of the reports' cells, in seconds.
CellSeconds == {600, 1200}

\* A cell of a report: what _get_travel_time returns for a route of that
\* many seconds (lines 217-230).
duration_cell(seconds) ==
  _get_travel_time(AddressBondi, WynardStation, "DRIVE", "current_time",
                   Route(duration_field(seconds), 0))

\* The addresses of the grocery stores, by their place in the report.
GroceryAddresses == <<HallSt, MallRd, SeaSt, BaySt>>

\* Lines 297-335: the groceries entry at place k of a report, for the
\* duration of the initial route and the driving/current cell.
grocery_entry(k, seconds, current) ==
  [destination |-> GroceryAddresses[k],
   distance |-> duration_cell(seconds),
   modes |-> [driving |-> [current |-> current],
              transit |-> [current |-> duration_cell(1200)],
              walking |-> [current |-> None]],
   store_info |-> [name |-> LOCATIONS.groceries[k],
                   display_name |-> LOCATIONS.groceries[k],
                   formatted_address |-> GroceryAddresses[k]]]

\* Lines 297-350: a work entry, with its peak cells.
work_entry ==
  [destination |-> WynardStation,
   distance |-> duration_cell(1800),
   modes |-> [driving |-> [current |-> duration_cell(1800),
                           morning_peak |-> duration_cell(2400),
                           evening_peak |-> None],
              transit |-> [current |-> None,
                           morning_peak |-> None,
                           evening_peak |-> duration_cell(3000)]]]

\* The lists of groceries entries of a report: up to MaxEntries stores, each
\* with a duration and a driving/current cell that holds a duration or None.
GroceryLists ==
  UNION {[1..n -> CellSeconds \X ({None} \cup {duration_cell(c) : c \in CellSeconds})] :
           n \in 1..MaxEntries}

\* The reports of calculate_distances: a category is a key only with
\* entries (lines 358-359).
ReportsOfCalculator ==
  {work_part @@ groceries_part :
     work_part \in {EmptyDict, [work |-> <<work_entry>>]},
     groceries_part \in
       {EmptyDict} \cup
       {[groceries |-> [k \in DOMAIN l |-> grocery_entry(k, l[k][1], l[k][2])]] :
          l \in GroceryLists}}

\* The key of a sort: a number, or float('inf').
SortKey(value) == [inf |-> FALSE, value |-> value]
float_inf == [inf |-> TRUE, value |-> 0]
key_less(a, b) == ~a.inf /\ (b.inf \/ a.value < b.value)

\* sorted(list, key=...), where keys[i] is the key of list[i]: ascending by
\* key, elements of equal key in the order of the list (Python's sort is
\* stable).
sorted_by_keys(list, keys) ==
  LET n == Len(list)
      before(j, i) ==
        \/ key_less(keys[j], keys[i])
        \/ ~key_less(keys[i], keys[j]) /\ j < i
      rank(i) == Cardinality({j \in 1..n : j # i /\ before(j, i)}) + 1
  IN  [p \in 1..n |-> list[CHOOSE i \in 1..n : rank(i) = p]]

\* list[:stop]
slice_to(list, stop) ==
  LET n == Len(list)
      last == IF stop < 0
              THEN (IF n + stop > 0 THEN n + stop ELSE 0)
              ELSE (IF stop < n THEN stop ELSE n)
  IN  SubSeq(list, 1, last)

\* The locations in the order of the report.
nearest_first_as_reported(locations_of) == locations_of

\* Lines 379-382: sorted(locations, key=lambda x: x["distance"]["value"]).
nearest_first(locations_of) ==
  sorted_by_keys(locations_of,
                 [i \in DOMAIN locations_of |-> SortKey(locations_of[i].distance.value)])

\* Lines 375-385 of get_nearest_locations, for the report that
\* calculate_distances returned at line 375.
get_nearest_locations(all_distances, at_most) ==
  [c \in DOMAIN all_distances |-> slice_to(nearest_first(all_distances[c]), at_most)]

\* distances.items(): the report's categories in the order calculate_distances
\* inserted them.
items_order(report) == SelectSeq(LOCATIONS_keys, LAMBDA c : c \in DOMAIN report)

\* category.upper()
str_upper_key(c) ==
  CASE c = "work" -> "WORK"
    [] c = "groceries" -> "GROCERIES"
    [] c = "schools" -> "SCHOOLS"

\* A line of the summary: a fixed text and the value formatted after it.
Line(label, value) == [label |-> label, value |-> value]

\* Lines 419-424 and 427-432: the lines of one mode's times.
mode_lines(times) ==
  (IF times.current # None
   THEN <<Line("  Current: ", times.current.text)>> ELSE <<>>)
  \o (IF "morning_peak" \in DOMAIN times /\ times.morning_peak # None
      THEN <<Line("  Morning Peak (9am): ", times.morning_peak.text)>> ELSE <<>>)
  \o (IF "evening_peak" \in DOMAIN times /\ times.evening_peak # None
      THEN <<Line("  Evening Peak (5pm): ", times.evening_peak.text)>> ELSE <<>>)

\* Lines 410-441: the lines of one location.
location_lines(location) ==
  <<Line("\n", location.destination),
    Line("Distance: ", location.distance.text),
    Line("\nBy Car:", "")>>
  \o mode_lines(location.modes.driving)
  \o <<Line("\nBy Public Transport:", "")>>
  \o mode_lines(location.modes.transit)
  \o (IF "walking" \in DOMAIN location.modes
      THEN <<Line("\nBy Walking:", "")>>
           \o (IF location.modes.walking.current # None
               THEN <<Line("  Current: ", location.modes.walking.current.text)>>
               ELSE <<>>)
      ELSE <<>>)
  \o <<Line("--------------------------------------------------", "")>>

\* Lines 404-407: sorted by driving/current seconds, the locations without
\* such a cell under float('inf').
by_driving_time(locations_of) ==
  sorted_by_keys(locations_of,
                 [i \in DOMAIN locations_of |->
                    IF locations_of[i].modes.driving.current # None
                    THEN SortKey(locations_of[i].modes.driving.current.value)
                    ELSE float_inf])

\* The lines of the locations of a list, one location after the other.
RECURSIVE lines_of(_)
lines_of(locations_of) ==
  IF locations_of = <<>> THEN <<>>
  ELSE location_lines(Head(locations_of)) \o lines_of(Tail(locations_of))

\* Lines 397-441, the loop over the categories from the one at place k on.
RECURSIVE summary_from(_, _)
summary_from(report, k) ==
  IF k > Len(items_order(report)) THEN <<>>
  ELSE LET c == items_order(report)[k]
       IN  (IF report[c] = <<>> THEN <<>>
            ELSE <<Line("\n" \o str_upper_key(c) \o " LOCATIONS:", "")>>
                 \o lines_of(by_driving_time(report[c])))
           \o summary_from(report, k + 1)

\* Lines 387-441: format_distance_summary builds its list of lines and ends
\* without a return statement: the call returns None.
format_distance_summary(report) ==
  [summary |-> summary_from(report, 1), returned |-> None]

InitReports ==
  /\ CalculatorInit
  /\ earlier_addresses = {}
  /\ FormatIdle
  /\ ApiInit
  /\ ThreadsIdle
  /\ AgentIdle
  /\ GalleryIdle
  /\ distances \in ReportsOfCalculator
  /\ limit = 1
  /\ summary = <<>>
  /\ summary_returned = NotCalled
  /\ nearest_locations = NotCalled

\* format_distance_summary(distances)
FormatDistanceSummary ==
  /\ summary_returned = NotCalled
  /\ LET out == format_distance_summary(distances)
     IN  /\ summary' = out.summary
         /\ summary_returned' = out.returned
  /\ UNCHANGED <<distances, limit, nearest_locations>>
  /\ UNCHANGED outside_reports

\* get_nearest_locations(property_address, limit), where calculate_distances
\* returns distances for the address.
GetNearestLocations(at_most) ==
  /\ nearest_locations = NotCalled
  /\ limit' = at_most
  /\ nearest_locations' = get_nearest_locations(distances, at_most)
  /\ UNCHANGED <<distances, summary, summary_returned>>
  /\ UNCHANGED outside_reports

NextReports ==
  \/ FormatDistanceSummary
  \/ \E at_most \in Limits : GetNearestLocations(at_most)

SpecReports == InitReports /\ [][NextReports]_vars

(***************************************************************************)
(* PropertyAgent.analyze_property (agent.py)                               *)
(***************************************************************************)

\* A Python list, as distinct from a dict.
py_list(elements) == [py_list |-> elements]

\* The value is a dict: it has .get.
IsMapping(v) == "py_none" \notin DOMAIN v /\ "py_list" \notin DOMAIN v

\* The value supports `x in value`: a dict or a list, not None.
supports_in(v) == "py_none" \notin DOMAIN v

\* x in container: a key of a dict, an element of a list.
py_in(x, container) ==
  IF "py_list" \in DOMAIN container
  THEN \E k \in DOMAIN container.py_list : container.py_list[k] = x
  ELSE x \in DOMAIN container

\* Lines 65-70: required_fields, in the dict's order.
required_fields ==
  <<[section |-> "basic_info", fields |-> <<"url", "title", "property_type", "price">>],
    [section |-> "address", fields |-> <<"full_address">>],
    [section |-> "features",
     fields |-> <<"bedrooms", "bathrooms", "parking", "property_size", "land_size">>],
    [section |-> "description", fields |-> <<>>]>>

\* Lines 64-85: every section is in the data and every field is in its
\* section; `in` is membership in whatever the data and the section are, and
\* an exception (None has no `in`, a list has no string index) makes the
\* data invalid.
validate_property_data(property_data) ==
  /\ supports_in(property_data)
  /\ \A r \in {required_fields[k] : k \in DOMAIN required_fields} :
       /\ py_in(r.section, property_data)
       /\ r.fields # <<>> =>
            /\ IsMapping(property_data)
            /\ supports_in(property_data[r.section])
            /\ \A k \in DOMAIN r.fields : py_in(r.fields[k], property_data[r.section])

\* Property data as the scraper builds it (scraper.py lines 81-106).
ScrapedData ==
  [basic_info |-> [url |-> ListingUrl, title |-> "Flat", property_type |-> "Apartment",
                   price |-> 900000],
   address |-> [full_address |-> AddressBondi],
   features |-> [bedrooms |-> 2, bathrooms |-> 1, parking |-> 1,
                 property_size |-> 80, land_size |-> None],
   description |-> "Two bedrooms"]

\* The property data handed to the agent: scraped data; nothing; data without
\* description; data without price; and data from a client of the analyze
\* endpoint (archive/api.py line 70 takes any JSON object) whose basic_info,
\* or whose features, is the list of the field names.
PropertyDatas ==
  { ScrapedData,
    None,
    [basic_info |-> ScrapedData.basic_info, address |-> ScrapedData.address,
     features |-> ScrapedData.features],
    [basic_info |-> [url |-> ListingUrl, title |-> "Flat", property_type |-> "Apartment"],
     address |-> ScrapedData.address, features |-> ScrapedData.features,
     description |-> "Two bedrooms"],
    [basic_info |-> py_list(<<"url", "title", "property_type", "price">>),
     address |-> ScrapedData.address, features |-> ScrapedData.features,
     description |-> "Two bedrooms"],
    [basic_info |-> ScrapedData.basic_info, address |-> ScrapedData.address,
     features |-> py_list(<<"bedrooms", "bathrooms", "parking", "property_size",
                            "land_size">>),
     description |-> "Two bedrooms"] }

\* "Name: Nancy" and "Name: Nancy\nRole: Critic"
PersonaOneLine == <<"N", "a", "m", "e", ":", " ", "N", "a", "n", "c", "y">>
PersonaTwoLines == <<"N", "a", "m", "e", ":", " ", "N", "a", "n", "c", "y", "\n", "R", "o", "l", "e", ":", " ", "C", "r", "i", "t", "i", "c">>

\* persona_prompt: None, or a text that is empty, of one line or of two lines.
PersonaPrompts ==
  {None} \cup {[text |-> t] : t \in {<<>>, PersonaOneLine, PersonaTwoLines}}

\* What self.model.generate_content(prompt) comes to: it raises, or returns
\* no response, a response without text, or a response with a text.
ModelOutcomes ==
  { Raises, Returns(None), Returns([text |-> ""]),
    Returns([text |-> "{\"Overview\": \"dear\"}"]), Returns([text |-> "It is dear."]) }

\* The same for the inspection checklist (lines 244-253).
ChecklistOutcomes == {Raises, Returns([text |-> "Check the roof."])}

\* Lines 325-351: _format_property_details calls .get on basic_info, features
\* and address, and raises when one of them is no dict.
format_raises(property_data) ==
  \/ ~IsMapping(dict_get(property_data, "basic_info", EmptyDict))
  \/ ~IsMapping(dict_get(property_data, "features", EmptyDict))
  \/ ~IsMapping(dict_get(property_data, "address", EmptyDict))

\* property_data.get("basic_info", {}).get("url", "Unknown URL"), which
\* raises when basic_info is no dict.
property_url(property_data) ==
  LET basic_info == dict_get(property_data, "basic_info", EmptyDict)
  IN  IF IsMapping(basic_info)
      THEN Returns(dict_get(basic_info, "url", "Unknown URL"))
      ELSE Raises

\* Lines 128-131: persona_prompt.split('\n'), then its lines 0 and 1; an
\* IndexError when there is one line only.
persona_raises(persona_prompt) == Len(str_split(persona_prompt.text, "\n", <<>>)) < 2

\* Lines 87-288: how the call ends, and how often it called the model.  The
\* texts of the prompts and the cleaning of the answer are left out; the
\* time of day in "timestamp" is "now".
PropertyAgent_analyze_property(property_data, persona_prompt, template_ok, answer, checklist) ==
  LET ends(outcome, calls) ==
        IF outcome.raised THEN [raised |-> TRUE, model_calls |-> calls]
        ELSE [raised |-> FALSE, value |-> outcome.value, model_calls |-> calls]
      \* lines 280-288: the handler of the outer try, which is not itself
      \* within a try
      handler(error, calls) ==
        LET url == property_url(property_data)
        IN  IF url.raised THEN ends(Raises, calls)
            ELSE ends(Returns([timestamp |-> "now", property_url |-> url.value,
                               error |-> error]), calls)
  IN  IF ~validate_property_data(property_data)
      THEN ends(Returns([timestamp |-> "now",
                         error |-> "Invalid or incomplete property data"]), 0)
      ELSE IF format_raises(property_data)
      THEN handler("Failed to format property details", 0)
      ELSE IF (IF persona_prompt # None /\ persona_prompt.text # <<>>
               THEN persona_raises(persona_prompt) ELSE ~template_ok)
      THEN handler("Failed to create analysis prompt", 0)
      ELSE IF answer.raised
      THEN handler("Failed to get Gemini API response", 1)
      ELSE IF answer.value = None \/ answer.value.text = ""
      THEN LET url == property_url(property_data)
           IN  IF url.raised THEN handler("Failed to get Gemini API response", 1)
               ELSE ends(Returns([timestamp |-> "now", property_url |-> url.value,
                                  error |-> "No response from Gemini API"]), 1)
      ELSE LET url == property_url(property_data)
           IN  IF url.raised THEN handler("Failed to structure final analysis", 2)
               ELSE ends(Returns([timestamp |-> "now", property_url |-> url.value,
                                  analysis |-> answer.value.text,
                                  inspection_checklist |->
                                    IF checklist.raised THEN None
                                    ELSE checklist.value.text]), 2)

InitAgent ==
  /\ CalculatorInit
  /\ earlier_addresses = {}
  /\ FormatIdle
  /\ ApiInit
  /\ ThreadsIdle
  /\ ReportsIdle
  /\ GalleryIdle
  /\ agent_input \in
       [property_data : PropertyDatas, persona_prompt : PersonaPrompts,
        template_ok : BOOLEAN, answer : ModelOutcomes, checklist : ChecklistOutcomes]
  /\ agent_result = NotCalled

\* agent.analyze_property(property_data, distance_info, persona_prompt)
AgentAnalyze ==
  /\ agent_result = NotCalled
  /\ agent_result' =
       PropertyAgent_analyze_property(agent_input.property_data, agent_input.persona_prompt,
                                      agent_input.template_ok, agent_input.answer,
                                      agent_input.checklist)
  /\ UNCHANGED agent_input
  /\ UNCHANGED outside_agent

NextAgent == AgentAnalyze

SpecAgent == InitAgent /\ [][NextAgent]_vars

(***************************************************************************)
(* DomainScraper._get_images (backend/services/scraper.py)                 *)
(***************************************************************************)

\* The number of distinct image sources the gallery shows.
MaxSources == 2

\* The image sources of the gallery.
Sources == {ToString(i) \o ".jpg" : i \in 1..MaxSources}

\* What an iteration finds (lines 309-316): the lookup raises, no image is
\* visible, or the last visible image has no src, an empty src or one of the
\* gallery's sources.
Views ==
  {[raises |-> TRUE], [raises |-> FALSE, visible |-> FALSE]}
    \cup {[raises |-> FALSE, visible |-> TRUE, src |-> v] :
            v \in {None} \cup {[url |-> u] : u \in Sources \cup {""}}}

\* The count is left alone by an iteration without new image.
next_no_new_images_count_not_counting(count, new) == IF new THEN 0 ELSE count

\* Lines 320-327: the count of consecutive iterations without new image.
next_no_new_images_count(count, new) == IF new THEN 0 ELSE count + 1

\* Lines 273-300: the Photos button is clicked and the Next button found, or
\* one of the waits raises and the empty list is returned (lines 354-358).
OpenGallery(opened) ==
  /\ gallery_pc = "idle"
  /\ gallery_pc' = IF opened THEN "loop" ELSE "returned"
  /\ images' = <<>>
  /\ seen_images' = {}
  /\ no_new_images_count' = 0
  /\ UNCHANGED src
  /\ UNCHANGED outside_gallery

\* Lines 302-343: one iteration of the loop.
Iterate(view, clicked) ==
  /\ gallery_pc = "loop"
  /\ IF view.raises
     THEN /\ gallery_pc' = "returned"
          /\ UNCHANGED <<images, seen_images, no_new_images_count, src>>
     ELSE IF ~view.visible
     THEN /\ gallery_pc' = "close"
          /\ UNCHANGED <<images, seen_images, no_new_images_count, src>>
     ELSE LET new == /\ view.src # None
                     /\ view.src.url # ""
                     /\ view.src.url \notin seen_images
              count == next_no_new_images_count(no_new_images_count, new)
          IN  /\ src' = view.src
              /\ images' = IF new THEN Append(images, view.src.url) ELSE images
              /\ seen_images' = IF new THEN seen_images \cup {view.src.url}
                                ELSE seen_images
              /\ no_new_images_count' = count
              /\ gallery_pc' = IF count >= 5 THEN "close"
                               ELSE IF clicked THEN "loop" ELSE "close"
  /\ UNCHANGED outside_gallery

\* Lines 350-358: the gallery is closed, or the wait for its close button
\* raises; the list is returned.
CloseGallery(closed) ==
  /\ gallery_pc = "close"
  /\ gallery_pc' = "returned"
  /\ UNCHANGED <<images, seen_images, no_new_images_count, src>>
  /\ UNCHANGED outside_gallery

NextGallery ==
  \/ \E opened \in BOOLEAN : OpenGallery(opened)
  \/ \E view \in Views, clicked \in BOOLEAN : Iterate(view, clicked)
  \/ \E closed \in BOOLEAN : CloseGallery(closed)

\* The call runs on: every request to the browser returns or raises (the
\* waits time out after 10 seconds), and the next line is executed.
SpecGallery == Init /\ [][NextGallery]_vars /\ WF_vars(NextGallery)

(***************************************************************************)
(* Properties of the report                                                *)
(***************************************************************************)

Range(f) == {f[i] : i \in DOMAIN f}

Min(S) == CHOOSE x \in S : \A y \in S : x <= y

\* C1: when the report is returned, no destination appears in any category
\* whose driving/current cell is the absence marker.
C1_MandatoryCellResolved ==
  pc = "returned" =>
    \A c \in DOMAIN results : \A i \in 1..Len(results[c]) :
      results[c][i].modes.driving.current # None

\* C2: in the returned report, adjacent destinations of a category are in
\* ascending order of their driving/current seconds (stated for the pairs
\* whose two cells are resolved).
C2_SortedByDrivingCurrent ==
  pc = "returned" =>
    \A c \in DOMAIN results : \A i \in 1..(Len(results[c]) - 1) :
      LET a == results[c][i].modes.driving.current
          b == results[c][i + 1].modes.driving.current
      IN  (a # None /\ b # None) => a.value <= b.value

\* C3: in the returned report, every destination's distance text is the
\* distanceMeters of its initial driving/current route, in kilometers rounded
\* to one decimal place and followed by " km".
C3_DistanceInKilometers ==
  pc = "returned" =>
    \A c \in DOMAIN results : \A i \in 1..Len(results[c]) :
      results[c][i].distance.text =
        km_text(round_km_tenths(initial_meters[<<c, results[c][i].destination>>]))

\* C4: no exception leaves calculate_distances, whatever the address, the
\* categories and the answers of the two APIs.
C4_NeverRaises == pc # "raised"

\* A call that returned although the suburb's IndexError and a failed
\* initial route for the work destination happened in it.
C4_Witness ==
  /\ pc = "returned"
  /\ property_address = AddressBlankSuburb
  /\ categories = LOCATIONS_keys
  /\ "work" \notin DOMAIN results
  /\ "schools" \in DOMAIN results

\* C5: every work entry has exactly the modes driving and transit, each with
\* exactly the windows current, morning_peak and evening_peak.
C5_WorkModes ==
  "work" \in DOMAIN results =>
    \A i \in 1..Len(results["work"]) :
      LET modes == results["work"][i].modes
      IN  /\ DOMAIN modes = {"driving", "transit"}
          /\ \A m \in DOMAIN modes :
               DOMAIN modes[m] = {"current", "morning_peak", "evening_peak"}

\* A returned work entry with an absence marker in a peak cell.
C5_Witness ==
  /\ pc = "returned"
  /\ "work" \in DOMAIN results
  /\ results["work"][1].modes.transit.evening_peak = None
  /\ results["work"][1].modes.driving.morning_peak # None

\* C6: every groceries or schools entry has exactly the modes driving,
\* transit and walking, each with the window current and no other.
C6_GroceriesSchoolsModes ==
  \A c \in DOMAIN results \cap {"groceries", "schools"} :
    \A i \in 1..Len(results[c]) :
      LET modes == results[c][i].modes
      IN  /\ DOMAIN modes = {"driving", "transit", "walking"}
          /\ \A m \in DOMAIN modes : DOMAIN modes[m] = {"current"}

\* A returned report with two groceries, the second without walking route,
\* and with the school.
C6_Witness ==
  /\ pc = "returned"
  /\ "groceries" \in DOMAIN results
  /\ "schools" \in DOMAIN results
  /\ Len(results["groceries"]) = 2
  /\ results["groceries"][2].modes.walking.current = None

\* C7: every key of the report maps to a non-empty list of a requested
\* category, and a category whose pass ends with no entry is no key of the
\* report (unless an earlier pass of the same category put it there).
C7_EmptyCategoryOmitted ==
  /\ \A c \in DOMAIN results : results[c] # <<>> /\ c \in Range(categories)
  /\ (pc = "category" /\ cat_pos > 1) =>
       LET c == categories[cat_pos - 1]
           earlier == {categories[k] : k \in 1..(cat_pos - 2)}
       IN  /\ category_results = <<>> /\ c \notin earlier => c \notin DOMAIN results
           /\ category_results # <<>> => c \in DOMAIN results

\* All categories requested for an address without suburb, the school's
\* initial route failed: only work is in the returned report.
C7_Witness ==
  /\ pc = "returned"
  /\ property_address = AddressNoComma
  /\ categories = LOCATIONS_keys
  /\ DOMAIN results = {"work"}

\* C8: no two accepted grocery locations of a call have the same formatted
\* address, in the list being resolved, in the destinations of the groceries
\* category and in the report.
C8_NoDuplicateAddress ==
  /\ \A i, j \in 1..Len(grocery_locations) :
       i # j => grocery_locations[i].formatted_address # grocery_locations[j].formatted_address
  /\ (pc \notin {"idle", "returned", "places"} /\ cat_pos <= Len(categories)
        /\ category = "groceries" /\ pc # "category") =>
       \A i, j \in 1..Len(destinations) : i # j => destinations[i] # destinations[j]
  /\ "groceries" \in DOMAIN results =>
       \A i, j \in 1..Len(results["groceries"]) :
         i # j => results["groceries"][i].destination # results["groceries"][j].destination

\* The Coles search listed the address already accepted for Woolworths first,
\* and two stores are accepted.
C8_Witness ==
  /\ pc = "places"
  /\ store_pos = 3
  /\ response = HttpResponse(200, [places |-> <<ColesExpress, ColesBondi>>])
  /\ Len(grocery_locations) = 2
  /\ grocery_locations[1].formatted_address = HallSt

\* The places of a places response, none when it carries none.
Candidates(r) ==
  IF ~r.raises /\ r.status_code = 200 /\ IsDict(r.data) /\ "places" \in DOMAIN r.data
  THEN r.data.places
  ELSE <<>>

CandidateAddress(p) == dict_get(p, "formattedAddress", <<>>)

\* A candidate without display name counts as named like the brand.
CandidateName(p, brand) ==
  IF "displayName" \in DOMAIN p /\ "text" \in DOMAIN p.displayName
  THEN p.displayName.text
  ELSE brand

\* The three conditions of acceptance, for the addresses accepted before.
Qualifies(p, brand, token, accepted) ==
  /\ CandidateAddress(p) \notin accepted
  /\ str_contains(str_lower(token), str_lower(CandidateAddress(p)))
  /\ str_contains(str_lower(brand), str_lower(CandidateName(p, brand)))

\* C9: after the pass for a brand, at most one location is accepted for each
\* brand; the one of this brand is the first candidate of the response, in
\* its order, that satisfies the three conditions, and there is none when no
\* candidate satisfies them.
C9_FirstQualifyingCandidate ==
  (pc = "places" /\ store_pos > 1) =>
    LET brand == LOCATIONS.groceries[store_pos - 1]
        mine == {i \in 1..Len(grocery_locations) : grocery_locations[i].name = brand}
        accepted == {grocery_locations[i].formatted_address :
                       i \in (1..Len(grocery_locations)) \ mine}
        candidates == Candidates(response)
        good == {k \in 1..Len(candidates) :
                   Qualifies(candidates[k], brand, suburb, accepted)}
    IN  /\ \A b \in Range(LOCATIONS.groceries) :
             Cardinality({i \in 1..Len(grocery_locations) :
                            grocery_locations[i].name = b}) <= 1
        /\ IF good = {}
           THEN mine = {}
           ELSE /\ Cardinality(mine) = 1
                /\ \A i \in mine :
                     grocery_locations[i] =
                       [name |-> brand,
                        display_name |-> CandidateName(candidates[Min(good)], brand),
                        formatted_address |-> CandidateAddress(candidates[Min(good)])]

\* The Coles search listed a store of another suburb first and the Coles of
\* Bondi second: the second is the accepted one.
C9_Witness ==
  /\ pc = "places"
  /\ store_pos = 3
  /\ response = HttpResponse(200, [places |-> <<ColesManly, ColesBondi>>])
  /\ Len(grocery_locations) = 2
  /\ grocery_locations[2].formatted_address = MallRd

\* No suburb token: the address has no comma, or nothing but whitespace
\* after its first comma.
NoSuburbToken(address) ==
  LET commas == {i \in 1..Len(address) : address[i] = ","}
  IN  \/ commas = {}
      \/ \A i \in (Min(commas) + 1)..Len(address) : IsSpace(address[i])

\* C10: for an address without suburb token no places search is issued, the
\* groceries category has no destination and is no key of the report, and
\* the report of a call for ["groceries"] is empty.
C10_NoSuburbNoGroceries ==
  (pc # "idle" /\ NoSuburbToken(property_address)) =>
    /\ places_requests = <<>>
    /\ pc # "places"
    /\ "groceries" \notin DOMAIN results
    /\ (pc \in {"destination", "drive_current", "transit_current", "walking_current"}
          /\ category = "groceries") => destinations = <<>>
    /\ (pc = "returned" /\ categories_arg = [given |-> TRUE, list |-> <<"groceries">>])
         => results = EmptyDict

\* The call for ["groceries"] with the address without comma returned the
\* empty report.
C10_Witness ==
  /\ pc = "returned"
  /\ property_address = AddressNoComma
  /\ categories_arg = [given |-> TRUE, list |-> <<"groceries">>]
  /\ results = EmptyDict
  /\ places_requests = <<>>

(***************************************************************************)
(* Properties of the routing queries                                       *)
(***************************************************************************)

\* The passes of the loop of line 285 that are under way.
InPass ==
  pc \in {"destination", "drive_current", "transit_current", "walking_current",
          "drive_morning_peak", "drive_evening_peak", "transit_morning_peak",
          "transit_evening_peak"}

\* The log's entries for destination i of pass p, in the order of issue.
QueriesFor(p, i) == SelectSeq(route_log, LAMBDA e : e.pass = p /\ e.idx = i)

\* The destinations of pass p whose first query failed.
Skipped(p) ==
  {e.destination : e \in {f \in Range(route_log) :
                            f.pass = p /\ QueriesFor(p, f.idx)[1].answer.failed}}

\* The category of pass p is processed once in this call.
ProcessedOnce(p) == \A q \in 1..Len(categories) : categories[q] = categories[p] => q = p

\* C11: the first routing query of every destination is driving at the
\* current time; when it failed, it is the only query of the destination, the
\* loop has moved past the destination, every destination before the current
\* one has been queried, and the skipped destination is no entry of its
\* category, neither while the category is processed nor in the report.
C11_SkippedOnInitialFailure ==
  /\ \A e \in Range(route_log) :
       LET queries == QueriesFor(e.pass, e.idx)
       IN  /\ queries[1].query = Query("DRIVE", "current_time")
           /\ queries[1].answer.failed =>
                /\ Len(queries) = 1
                /\ (e.pass = cat_pos /\ InPass) => idx > e.idx
  /\ InPass =>
       /\ \A i \in 1..(idx - 1) : QueriesFor(cat_pos, i) # <<>>
       /\ \A k \in 1..Len(category_results) :
            category_results[k].destination \notin Skipped(cat_pos)
       /\ result # EmptyDict => result.destination \notin Skipped(cat_pos)
  /\ \A p \in 1..Len(categories) :
       (ProcessedOnce(p) /\ (p < cat_pos \/ pc = "returned")) =>
         \A k \in 1..Len(dict_get(results, categories[p], <<>>)) :
           results[categories[p]][k].destination \notin Skipped(p)

\* The first grocery destination was skipped on its failed initial query and
\* the second one is an entry of the category.
C11_Witness ==
  /\ pc = "destination"
  /\ category = "groceries"
  /\ idx = 3
  /\ destinations[1] \in Skipped(cat_pos)
  /\ Len(category_results) = 1
  /\ category_results[1].destination = destinations[2]

\* The key of a travel mode in an entry's modes.
ModeKey(mode) ==
  CASE mode = "DRIVE" -> "driving"
    [] mode = "TRANSIT" -> "transit"
    [] mode = "WALK" -> "walking"

\* The key of a departure time in a mode's cells.
WindowKey(departure_time) ==
  IF departure_time = "current_time" THEN "current" ELSE departure_time

\* The result of a query with this answer: the absence marker, or the text
\* and the seconds of the route's duration.
ResultOf(answer) ==
  IF answer.failed THEN None
  ELSE LET seconds == int_value(SubSeq(answer.route.duration, 1,
                                       Len(answer.route.duration) - 1))
       IN  [text |-> _format_duration(seconds), value |-> seconds]

\* Every query of the destination after the initial one has its result in
\* its own cell of the entry.
CellsHold(entry, queries) ==
  \A j \in 2..Len(queries) :
    LET mode == ModeKey(queries[j].query.mode)
        window == WindowKey(queries[j].query.departure_time)
    IN  /\ mode \in DOMAIN entry.modes
        /\ window \in DOMAIN entry.modes[mode]
        /\ entry.modes[mode][window] = ResultOf(queries[j].answer)

\* The entries among which the one of destination i of pass p is to be found:
\* the one under construction, the ones of the category under way, the ones
\* of the report.
EntriesOf(p, i) ==
  IF p = cat_pos /\ InPass
  THEN IF i = idx THEN (IF result = EmptyDict THEN {} ELSE {result})
       ELSE Range(category_results)
  ELSE Range(dict_get(results, categories[p], <<>>))

\* C12: every destination whose initial query succeeded and that has been
\* queried further has an entry (under construction, in its category, or in
\* the report once the category is done), and each of its cells holds the
\* result of the cell's own query: the absence marker when that query
\* failed, the query's duration otherwise, whatever the other queries gave.
C12_FailureMarksItsOwnCell ==
  \A e \in Range(route_log) :
    LET queries == QueriesFor(e.pass, e.idx)
    IN  ( /\ ~queries[1].answer.failed
          /\ Len(queries) >= 2
          /\ (e.pass = cat_pos /\ InPass) \/ ProcessedOnce(e.pass) ) =>
          \E entry \in EntriesOf(e.pass, e.idx) :
            /\ entry.destination = e.destination
            /\ CellsHold(entry, queries)

\* The report of the work destination has the absence marker in
\* transit/morning_peak, whose query failed, and a duration in every other cell.
C12_Witness ==
  /\ pc = "returned"
  /\ "work" \in DOMAIN results
  /\ \E e \in Range(route_log) :
       /\ e.query = Query("TRANSIT", "morning_peak")
       /\ e.answer.failed
  /\ LET modes == results.work[1].modes
     IN  /\ modes.transit.morning_peak = None
         /\ modes.transit.current # None
         /\ modes.transit.evening_peak # None
         /\ \A w \in DOMAIN modes.driving : modes.driving[w] # None

\* C13: a destination of the work category gets at most 6 routing requests,
\* which are for driving or transit at the current time, the morning peak or
\* the evening peak, each at most once, and none for walking.
C13_AtMostSixForWork ==
  \A e \in Range(route_log) :
    categories[e.pass] = "work" =>
      LET queries == QueriesFor(e.pass, e.idx)
      IN  /\ Len(queries) <= 6
          /\ \A j \in 1..Len(queries) : queries[j].query.mode # "WALK"
          /\ \A j, k \in 1..Len(queries) : queries[j].query = queries[k].query => j = k

(***************************************************************************)
(* Properties of a call's arguments and of successive calls                *)
(***************************************************************************)

\* C14: a call without categories argument processes work, groceries and
\* schools; a call with a list processes listed categories only, and only
\* listed categories are keys of its report.
C14_OnlyListedCategories ==
  pc # "idle" =>
    IF categories_arg.given
    THEN /\ Range(categories) \subseteq Range(categories_arg.list)
         /\ DOMAIN results \subseteq Range(categories_arg.list)
    ELSE Range(categories) = {"work", "groceries", "schools"}

\* The calculator's state when the call (address, arg) has just been entered
\* on an instance that was never called before.
EnteredFresh(address, arg) ==
  /\ property_address = address
  /\ categories_arg = arg
  /\ categories = IF ~arg.given \/ arg.list = <<>> THEN LOCATIONS_keys ELSE arg.list
  /\ results = EmptyDict
  /\ category_results = <<>>
  /\ locations = <<>>
  /\ destinations = <<>>
  /\ idx = 1
  /\ initial_route = None
  /\ result = EmptyDict
  /\ suburb = <<>>
  /\ store_pos = 1
  /\ grocery_locations = <<>>
  /\ seen_addresses = {}
  /\ response = None

\* C15: whatever calls came before, a call that has just been entered is in
\* the state of the same call on a fresh instance, so that with the same API
\* responses it takes the same steps and returns the same report; and every
\* places search of a call starts from addresses accepted in this call only
\* (none before its first search).
C15_NothingPersists ==
  /\ (pc = "category" /\ cat_pos = 1) => EnteredFresh(property_address, categories_arg)
  /\ pc = "places" =>
       /\ seen_addresses =
            {grocery_locations[k].formatted_address : k \in 1..Len(grocery_locations)}
       /\ store_pos = 1 => seen_addresses = {}

\* A call returned a report with a grocery address that an earlier call on
\* the instance had reported already.
C15_Witness ==
  /\ pc = "returned"
  /\ grocery_addresses(results) \cap earlier_addresses # {}

(***************************************************************************)
(* Properties of the rendering of durations                                *)
(***************************************************************************)

\* The text of s seconds: hours and minutes of the rest when there is a
\* whole hour, the whole minutes otherwise.
DurationText(s) ==
  IF s \div 3600 > 0
  THEN ToString(s \div 3600) \o " hr " \o ToString((s % 3600) \div 60) \o " min"
  ELSE ToString(s \div 60) \o " min"

\* C16: each of the two renderings of s seconds is "<s div 3600> hr <(s mod
\* 3600) div 60> min" when s div 3600 > 0 and "<s div 60> min" otherwise, so
\* the two agree; 3660 gives "1 hr 1 min", 59 "0 min", 7200 "2 hr 0 min" and
\* 1800 "30 min".
C16_DurationRendering ==
  LET expected ==
        CASE duration_seconds = 3660 -> "1 hr 1 min"
          [] duration_seconds = 59 -> "0 min"
          [] duration_seconds = 7200 -> "2 hr 0 min"
          [] duration_seconds = 1800 -> "30 min"
          [] OTHER -> DurationText(duration_seconds)
  IN  /\ expected = DurationText(duration_seconds)
      /\ duration_text # "" => duration_text = expected
      /\ formatted # "" => formatted = expected

\* 3660 seconds have been rendered both ways.
C16_Witness ==
  /\ duration_seconds = 3660
  /\ duration_text = "1 hr 1 min"
  /\ formatted = "1 hr 1 min"

(***************************************************************************)
(* Properties of the endpoints                                             *)
(***************************************************************************)

\* The request handled last was an initialize request.
Initialized == http_request # None /\ http_request.endpoint = "initialize"

\* The calls of the distance calculator for the request handled last.
CalculatorCalls == SelectSeq(service_calls, LAMBDA c : c.service = "distance_calculator")

OnDomain(url) ==
  \A i \in 1..Len(DOMAIN_PREFIX) : i <= Len(url) /\ url[i] = DOMAIN_PREFIX[i]

\* C18: an initialize request whose URL does not begin with
\* "https://www.domain.com.au/" is answered 200 with a session id and status
\* "error", neither the scraper nor the distance calculator is called for it,
\* and the session stored under that id has status "error".
C18_InvalidUrlIsAnError ==
  (Initialized /\ ~OnDomain(http_request.url)) =>
    /\ http_response.status_code = 200
    /\ "session_id" \in DOMAIN http_response.body
    /\ http_response.body.status = "error"
    /\ service_calls = <<>>
    /\ http_response.body.session_id \in DOMAIN analysis_sessions
    /\ analysis_sessions[http_response.body.session_id].status = "error"

\* The request for "https://invalid-domain.com.au/invalid-property" has been
\* answered with status "error".
C18_Witness ==
  /\ Initialized
  /\ http_request.url = InvalidDomainUrl
  /\ http_response.body.status = "error"
  /\ http_response.body.error = InvalidUrlError

\* C19: no two initialize requests got the same session id (so that none
\* replaced the stored record of an earlier one).
C19_NewSessionEveryRequest ==
  \A i, j \in 1..Len(issued) : issued[i] = issued[j] => i = j

\* The scraper returned property data that is not empty.
Scraped ==
  /\ ~http_request.scraper.raised
  /\ http_request.scraper.value # None
  /\ http_request.scraper.value # EmptyDict

\* C20: an initialize request with a URL on "https://www.domain.com.au/" for
\* which the scraper returned non-empty property data is answered 200 with
\* status "ready" and that property data; when the data has
\* address.full_address, the distance calculator was called once, with that
\* address and the request's categories, and distance_info is its report;
\* otherwise it was not called and distance_info is null.
C20_ReadyWithDataAndDistances ==
  (Initialized /\ OnDomain(http_request.url) /\ Scraped) =>
    LET property_data == http_request.scraper.value
        body == http_response.body
    IN  /\ http_response.status_code = 200
        /\ body.status = "ready"
        /\ body.property_data = property_data
        /\ IF /\ "address" \in DOMAIN property_data
              /\ "full_address" \in DOMAIN property_data.address
           THEN /\ CalculatorCalls =
                     <<[service |-> "distance_calculator",
                        address |-> property_data.address.full_address,
                        categories |-> http_request.categories]>>
                /\ body.distance_info = http_request.report
           ELSE /\ CalculatorCalls = <<>>
                /\ body.distance_info = None

\* The request for a listing whose data has an address has been answered with
\* status "ready" and the report for ["work"].
C20_Witness ==
  /\ Initialized
  /\ http_request.url = ListingUrl
  /\ http_request.categories = [given |-> TRUE, list |-> <<"work">>]
  /\ http_response.body.status = "ready"
  /\ http_response.body.property_data = Listing
  /\ http_response.body.distance_info = WorkReport

(***************************************************************************)
(* Properties of the grocery entries                                       *)
(***************************************************************************)

\* The entry belongs to category c as far as store_info goes: a groceries
\* entry has the store_info of its own destination, any other entry has none.
OwnStoreInfo(c, entry) ==
  IF c = "groceries"
  THEN /\ "store_info" \in DOMAIN entry
       /\ entry.store_info.formatted_address = entry.destination
  ELSE "store_info" \notin DOMAIN entry

\* C29: every groceries entry, in the report, among the results of the
\* category under way and under construction, carries the store_info whose
\* formatted_address is the entry's destination, also after earlier grocery
\* destinations were skipped; the entries of the other categories have no
\* store_info.
C29_StoreInfoOfOwnDestination ==
  /\ \A c \in DOMAIN results : \A k \in DOMAIN results[c] :
       OwnStoreInfo(c, results[c][k])
  /\ InPass =>
       /\ \A k \in DOMAIN category_results : OwnStoreInfo(category, category_results[k])
       /\ result # EmptyDict => OwnStoreInfo(category, result)

\* The report has a groceries entry for the second resolved store, whose
\* store_info names the Coles of that address, after the first resolved
\* store was skipped for the failure of its first query.
C29_Witness ==
  /\ pc = "returned"
  /\ "groceries" \in DOMAIN results
  /\ Len(results.groceries) = 1
  /\ results.groceries[1].destination = MallRd
  /\ results.groceries[1].store_info.name = Coles
  /\ results.groceries[1].store_info.formatted_address = MallRd
  /\ \E e \in Range(route_log) :
       e.destination = HallSt /\ e.idx = 1 /\ e.answer.failed

\* The candidate has no display name: no displayName, or one without text.
Unnamed(place) ==
  "displayName" \notin DOMAIN place \/ "text" \notin DOMAIN place.displayName

\* Candidate k of the list is examined by the loop: every candidate before
\* it was examined and skipped by one of the three checks.
Examined(list, k, brand, token, accepted) ==
  \A j \in 1..(k - 1) :
    /\ IsDict(list[j])
    /\ ("displayName" \in DOMAIN list[j] => IsDict(list[j].displayName))
    /\ \/ dict_get(list[j], "formattedAddress", <<>>) \in accepted
       \/ ~str_contains(str_lower(token),
                        str_lower(dict_get(list[j], "formattedAddress", <<>>)))
       \/ /\ ~Unnamed(list[j])
          /\ ~str_contains(str_lower(brand), str_lower(list[j].displayName.text))

\* C30: after the pass for a brand, a candidate without display name that
\* the loop examined, whose address is new and contains the suburb token, is
\* the brand's accepted location, with the brand name as its display name;
\* no accepted location has an empty address, so a candidate without
\* formatted address is never the accepted one.
C30_UnnamedCandidateTakesBrandName ==
  /\ \A i \in DOMAIN grocery_locations : grocery_locations[i].formatted_address # <<>>
  /\ (pc = "places" /\ store_pos > 1) =>
       LET brand == LOCATIONS.groceries[store_pos - 1]
           list == Candidates(response)
           others == {grocery_locations[i].formatted_address :
                        i \in {n \in DOMAIN grocery_locations :
                                 grocery_locations[n].name # brand}}
       IN  \A k \in DOMAIN list :
             ( /\ Examined(list, k, brand, suburb, others)
               /\ IsDict(list[k])
               /\ "displayName" \notin DOMAIN list[k]
               /\ "formattedAddress" \in DOMAIN list[k]
               /\ list[k].formattedAddress \notin others
               /\ str_contains(str_lower(suburb), str_lower(list[k].formattedAddress)) )
             => \E i \in DOMAIN grocery_locations :
                  grocery_locations[i] =
                    [name |-> brand, display_name |-> brand,
                     formatted_address |-> list[k].formattedAddress]

\* The Aldi search listed a place of Bondi without display name, and it was
\* accepted as the Aldi store, named "Aldi".
C30_Witness ==
  /\ pc = "places"
  /\ store_pos = 4
  /\ response = HttpResponse(200, [places |-> <<[formattedAddress |-> SeaSt]>>])
  /\ \E i \in DOMAIN grocery_locations :
       grocery_locations[i] =
         [name |-> Aldi, display_name |-> Aldi, formatted_address |-> SeaSt]

(***************************************************************************)
(* Properties of the analyze endpoint, the sessions and the scraper        *)
(***************************************************************************)

\* C21: an analyze request that names an agent other than "negative_nancy"
\* is answered with status 400 and the detail "Unknown agent: <name>", and
\* no analysis is run for it.
C21_UnknownAgentIs400 ==
  (http_request # None /\ http_request.endpoint = "analyze"
     /\ http_request.agent # "negative_nancy") =>
    /\ http_response.status_code = 400
    /\ http_response.body.detail = "Unknown agent: " \o http_request.agent
    /\ service_calls = <<>>

\* C26: every initialize request's record was created with status
\* "initializing"; when the request returned, its status was "ready" or
\* "error" and the status of the response; and the store still holds, under
\* the request's session id, the record as it was when the request returned.
C26_SessionLifecycle ==
  \A i \in DOMAIN sessions_log :
    LET entry == sessions_log[i]
    IN  /\ entry.created.status = "initializing"
        /\ entry.returned.status \in {"ready", "error"}
        /\ entry.returned.status = entry.status
        /\ entry.session_id \in DOMAIN analysis_sessions
        /\ analysis_sessions[entry.session_id] = entry.returned

\* The step is an initialize request for a URL on the listing site, handled
\* when the manager's scraper exists already.
LaterValidInitialize ==
  /\ handled' = handled + 1
  /\ http_request'.endpoint = "initialize"
  /\ valid_url(http_request'.url)
  /\ _scraper # None

\* C27: between requests the manager's scraper, once it exists, has a driver
\* that was quit; and every initialize request with a valid URL that finds
\* the scraper in place ends with status "error".
C27_OnlyFirstCallHasLiveDriver ==
  /\ [](_scraper # None => _scraper.driver = "quit")
  /\ [][LaterValidInitialize =>
          /\ http_response'.body.status = "error"
          /\ analysis_sessions'[http_response'.body.session_id].status = "error"]_vars

\* A second initialize request for a listing's URL has been answered with
\* status "error" after a first one was answered with status "ready".
C27_Witness ==
  /\ Len(sessions_log) = 2
  /\ sessions_log[1].status = "ready"
  /\ sessions_log[2].status = "error"
  /\ sessions_log[1].returned.url = ListingUrl
  /\ sessions_log[2].returned.url = ListingUrl
  /\ _scraper = [driver |-> "quit"]

(***************************************************************************)
(* Properties of the service manager                                       *)
(***************************************************************************)

\* C23: of each service at most one instance is constructed, and the threads
\* whose read of the same property has returned all got the same instance.
C23_OneInstancePerService ==
  /\ \A s \in Services : constructions[s] <= 1
  /\ \A t, u \in Threads :
       (reader_pc[t] = "done" /\ reader_pc[u] = "done"
          /\ reader_service[t] = reader_service[u]) => reader_got[t] = reader_got[u]

(***************************************************************************)
(* Properties of the summary and of the nearest locations                  *)
(***************************************************************************)

\* The destinations the summary lists, in its order.
Listed ==
  LET lines == SelectSeq(summary, LAMBDA line : line.label = "\n")
  IN  [p \in DOMAIN lines |-> lines[p].value]

\* C22: the call of format_distance_summary returned a string, which lists
\* every location of the report once, the locations of a category in
\* ascending order of their driving/current seconds and those without such a
\* result after the others.
C22_SummaryIsSortedText ==
  summary_returned # NotCalled =>
    /\ summary_returned # None
    /\ \A c \in DOMAIN distances : \A k \in DOMAIN distances[c] :
         Cardinality({p \in DOMAIN Listed : Listed[p] = distances[c][k].destination}) = 1
    /\ \A c \in DOMAIN distances : \A j, k \in DOMAIN distances[c] :
         LET a == distances[c][j]
             b == distances[c][k]
             place(e) == CHOOSE p \in DOMAIN Listed : Listed[p] = e.destination
         IN  (place(a) < place(b) /\ b.modes.driving.current # None) =>
               /\ a.modes.driving.current # None
               /\ a.modes.driving.current.value <= b.modes.driving.current.value

\* Entry i of the list comes before entry j when sorted by distance value,
\* entries of equal value in the order of the list.
ComesFirst(list, i, j) ==
  \/ list[i].distance.value < list[j].distance.value
  \/ list[i].distance.value = list[j].distance.value /\ i < j

\* C24: for a limit of 0 or more, get_nearest_locations returns exactly the
\* categories of the report, and for each of them the min(limit, n) entries
\* of smallest distance value, in ascending order of that value, entries of
\* equal value in the order of the report.
C24_NearestLocations ==
  (nearest_locations # NotCalled /\ limit >= 0) =>
    /\ DOMAIN nearest_locations = DOMAIN distances
    /\ \A c \in DOMAIN distances :
         LET all == distances[c]
             out == nearest_locations[c]
             n == Len(all)
             m == IF limit < n THEN limit ELSE n
             at(p) == CHOOSE i \in 1..n : all[i] = out[p]
         IN  /\ Len(out) = m
             /\ \A p \in 1..m : out[p] \in Range(all)
             /\ \A p, q \in 1..m : p < q => ComesFirst(all, at(p), at(q))
             /\ \A j \in (1..n) \ {at(p) : p \in 1..m} :
                  \A p \in 1..m : ComesFirst(all, at(p), j)

\* Of three stores at 1200, 600 and 600 seconds, the call with limit 2
\* returned the second and the third, in that order.
C24_Witness ==
  /\ nearest_locations # NotCalled
  /\ limit = 2
  /\ "groceries" \in DOMAIN distances
  /\ Len(distances.groceries) = 3
  /\ distances.groceries[1].distance.value = 1200
  /\ distances.groceries[2].distance.value = 600
  /\ distances.groceries[3].distance.value = 600
  /\ nearest_locations.groceries = <<distances.groceries[2], distances.groceries[3]>>

(***************************************************************************)
(* Properties of the agent                                                 *)
(***************************************************************************)

\* Every required section is a key of the data and every required field a
\* member of its section.
Validated(property_data) ==
  /\ property_data # None
  /\ \A k \in DOMAIN required_fields :
       /\ py_in(required_fields[k].section, property_data)
       /\ \A f \in DOMAIN required_fields[k].fields :
            py_in(required_fields[k].fields[f], property_data[required_fields[k].section])

\* C25: the call of analyze_property did not raise; what it returned has
\* either "error" or "analysis" as a key, not both; it has "error", and the
\* model was not called, when the data is not valid; it has "error" when the
\* persona prompt has one line only and when the model gave no response or
\* an empty one.
C25_AgentNeverRaises ==
  agent_result # NotCalled =>
    /\ ~agent_result.raised
    /\ ("error" \in DOMAIN agent_result.value) # ("analysis" \in DOMAIN agent_result.value)
    /\ ~Validated(agent_input.property_data) =>
         "error" \in DOMAIN agent_result.value /\ agent_result.model_calls = 0
    /\ agent_input.persona_prompt = [text |-> PersonaOneLine] =>
         "error" \in DOMAIN agent_result.value
    /\ (agent_input.answer.raised \/ agent_input.answer.value = None
          \/ agent_input.answer.value.text = "") => "error" \in DOMAIN agent_result.value

(***************************************************************************)
(* Properties of the gallery loop                                          *)
(***************************************************************************)

\* C28: the call of _get_images returns; the loop is left, at the latest,
\* by the fifth consecutive iteration without new source; the list has no
\* source twice; it holds every source shown, and grows only at its end, by
\* the source shown at that moment, which it did not hold: the sources are in
\* the order in which they were first seen.
C28_GalleryLoopTerminates ==
  /\ <>(gallery_pc = "returned")
  /\ [](/\ no_new_images_count <= 5
        /\ gallery_pc = "loop" => no_new_images_count < 5
        /\ \A i, j \in DOMAIN images : images[i] = images[j] => i = j
        /\ (src # None /\ src.url # "") => \E i \in DOMAIN images : images[i] = src.url)
  /\ [][images' # images =>
          /\ src' # None
          /\ images' = Append(images, src'.url)
          /\ \A i \in DOMAIN images : images[i] # src'.url]_vars

\* The call returned both sources of the gallery, the second-numbered first,
\* after five iterations in a row that showed nothing new.
C28_Witness ==
  /\ gallery_pc = "returned"
  /\ images = <<"2.jpg", "1.jpg">>
  /\ no_new_images_count = 5


=============================================================================
